---- MODULE Spec2Model ----
(***************************************************************************)
(* SmartOfficeAssistant: the prompt builders (simple_app.py, app.py,       *)
(* main.py, email_utils.py), the response evaluators                       *)
(* (evaluation_utils.py, app.py), the completion gateway (GroqAPIClient    *)
(* and generate_reply of main.py, simple_app.py, app.py, groq_utils.py),   *)
(* the form submission handlers and the attachment list of app.py.         *)
(*                                                                         *)
(* A Python str is a sequence of characters.  A character is a             *)
(* one-character string; the two non-ASCII characters the model uses are   *)
(* written by code point: "U+00DF" (LATIN SMALL LETTER SHARP S) and        *)
(* "U+2022" (BULLET).  None is the record NoneValue; an Optional[str]      *)
(* holding a string s is Some(s).                                          *)
(***************************************************************************)
EXTENDS Integers, Sequences, FiniteSets, TLC

VARIABLES
    reply,        \* the generated email text handed to an evaluator
    key_points,   \* the list of key points (a sequence of strings)
    tone,         \* the tone label handed to build_prompt
    context,      \* the Optional[str] context handed to build_prompt
    email_type,   \* the email_type handed to simple_app.build_prompt
    ret,          \* the last call: [fn |-> name, value |-> what it returned]
                  \* or [fn |-> name, error |-> what it raised]
    env,          \* os.getenv('GROQ_API_KEY'): None when the variable is unset
    client,       \* the GroqAPIClient object, once one is constructed
    call,         \* the last call of the gateway or the session: its arguments
    requests,     \* the chat-completion requests sent to the provider
    pc,           \* the position of the form submission handler
    log,          \* the steps the form submission handler has run
    response,     \* response, as the form submission handler holds it
    form,         \* the fields of the submitted form and the prompt built
    attachments,  \* st.session_state.attachments
    settings,     \* SMTP_PASSWORD, the sidebar's choices, st.secrets and the
                  \* file held by the uploader
    result,       \* the script's variables success and message
    mail,         \* the last call of send_email and the SMTP session it ran
    shown         \* what the Send Email button has shown

function_vars == <<reply, key_points, tone, context, email_type>>

gateway_vars == <<env, client, call, requests>>

form_vars == <<pc, log, response, form>>

session_vars == <<attachments>>

send_vars == <<settings, result, mail, shown>>

vars == <<reply, key_points, tone, context, email_type, ret,
          env, client, call, requests, pc, log, response, form, attachments,
          settings, result, mail, shown>>

----------------------------------------------------------------------------
(* Bounds of the model *)

MaxPoints == 2        \* key_points lists have at most this many points
MaxReplyWords == 2    \* generated replies have at most this many words

----------------------------------------------------------------------------
(* Python values *)

NoneValue == [is_none |-> TRUE, str |-> <<>>]

Some(s) == [is_none |-> FALSE, str |-> s]

\* bool(x) of an Optional[str]: None and "" are falsy
truthy(opt) == ~opt.is_none /\ opt.str # <<>>

\* str(x) as an f-string field renders an Optional[str]: None prints as "None"
format_field(opt) == IF opt.is_none THEN <<"N","o","n","e">> ELSE opt.str

RangeOf(seq) == {seq[i] : i \in 1..Len(seq)}

RECURSIVE Flatten(_)
Flatten(seqs) == IF seqs = <<>> THEN <<>> ELSE Head(seqs) \o Flatten(Tail(seqs))

\* sep.join(parts)
RECURSIVE join(_, _)
join(sep, parts) ==
    IF parts = <<>> THEN <<>>
    ELSE IF Len(parts) = 1 THEN parts[1]
    ELSE parts[1] \o sep \o join(sep, Tail(parts))

\* a in b, for strings: a occurs in b as a contiguous substring
is_in(a, b) == \E i \in 0..(Len(b) - Len(a)) : \A j \in 1..Len(a) : b[i + j] = a[j]

UpperLetters == <<"A","B","C","D","E","F","G","H","I","J","K","L","M","N","O","P","Q","R","S","T","U","V",
      "W","X","Y","Z">>

LowerLetters == <<"a","b","c","d","e","f","g","h","i","j","k","l","m","n","o","p","q","r","s","t","u","v",
      "w","x","y","z">>

Digits == <<"0","1","2","3","4","5","6","7","8","9">>

SharpS == "U+00DF"

UpperSet == RangeOf(UpperLetters)

LowerSet == RangeOf(LowerLetters)

index_of(c, seq) == CHOOSE i \in 1..Len(seq) : seq[i] = c

LowerOf == [c \in UpperSet |-> LowerLetters[index_of(c, UpperLetters)]]

UpperOf == [c \in LowerSet |-> UpperLetters[index_of(c, LowerLetters)]]

\* the lowercase mapping of one character (str.lower): "U+00DF" is lowercase
lower_char(c) == IF c \in UpperSet THEN LowerOf[c] ELSE c

\* the uppercase mapping of one character (str.upper): "U+00DF" becomes "SS"
upper_char(c) ==
    IF c \in LowerSet THEN <<UpperOf[c]>>
    ELSE IF c = SharpS THEN <<"S","S">>
    ELSE <<c>>

\* the titlecase mapping of one character: "U+00DF" becomes "Ss"
title_char(c) == IF c = SharpS THEN <<"S","s">> ELSE upper_char(c)

\* s.lower(): every character of the model lowercases to one character
lower(s) == [i \in 1..Len(s) |-> lower_char(s[i])]

\* s.upper()
upper(s) == Flatten([i \in 1..Len(s) |-> upper_char(s[i])])

\* s.capitalize(): the first character titlecased, the rest lowercased
capitalize(s) == IF s = <<>> THEN <<>> ELSE title_char(Head(s)) \o lower(Tail(s))

\* c.isspace()
is_space(c) == c \in {" ", "\n", "\t", "\r"}

\* the regular expression class \w: letters, digits and underscore
WordChars == UpperSet \cup LowerSet \cup RangeOf(Digits) \cup {"_", SharpS}

is_word_char(c) == c \in WordChars

\* s.strip(): leading and trailing whitespace removed
strip(s) ==
    LET inked == {i \in 1..Len(s) : ~is_space(s[i])}
        first == CHOOSE i \in inked : \A j \in inked : i <= j
        last == CHOOSE i \in inked : \A j \in inked : j <= i
    IN IF inked = {} THEN <<>> ELSE SubSeq(s, first, last)

\* len(s.split()): the number of maximal runs of non-whitespace characters,
\* counted by the positions where such a run starts
split_len(s) ==
    Cardinality({i \in 1..Len(s) : ~is_space(s[i]) /\ (i = 1 \/ is_space(s[i - 1]))})

\* re.findall(r'\b\w+\b', s): a left-to-right scan collecting the maximal
\* runs of word characters; cur is the run being read, acc the runs found
RECURSIVE findall_scan(_, _, _, _)
findall_scan(s, i, cur, acc) ==
    LET closed == IF cur = <<>> THEN acc ELSE Append(acc, cur)
    IN IF i > Len(s) THEN closed
       ELSE IF is_word_char(s[i]) THEN findall_scan(s, i + 1, Append(cur, s[i]), acc)
       ELSE findall_scan(s, i + 1, <<>>, closed)

findall_words(s) == findall_scan(s, 1, <<>>, <<>>)

----------------------------------------------------------------------------
(* evaluation_utils.py *)

BriefLimit == 50

\* key_words with the filter len(word) >= 2
key_words_short_mut(point_lower) ==
    SelectSeq(findall_words(point_lower), LAMBDA word : Len(word) >= 2)

\* check_key_points_included, lines 32-33: the words of the point longer than 2
key_words(point_lower) ==
    SelectSeq(findall_words(point_lower), LAMBDA word : Len(word) > 2)

\* point_found with all(...) in place of any(...)
point_found_all_mut(text_lower, point) ==
    LET point_lower == lower(point)
    IN \/ is_in(point_lower, text_lower)
       \/ /\ key_words(point_lower) # <<>>
          /\ \A k \in 1..Len(key_words(point_lower)) :
                is_in(key_words(point_lower)[k], text_lower)

\* check_key_points_included, lines 25-36: TRUE when the loop body reaches a
\* continue for this point, FALSE when it falls through to return False
point_found(text_lower, point) ==
    LET point_lower == lower(point)
    IN IF is_in(point_lower, text_lower) THEN TRUE
       ELSE LET words == key_words(point_lower)
            IN words # <<>> /\ \E k \in 1..Len(words) : is_in(words[k], text_lower)

RECURSIVE check_key_points_loop(_, _, _)
check_key_points_loop(text_lower, points, i) ==
    IF i > Len(points) THEN TRUE
    ELSE IF point_found(text_lower, points[i])
         THEN check_key_points_loop(text_lower, points, i + 1)
         ELSE FALSE

\* check_key_points_included returning False for an empty list
check_key_points_nonempty_mut(text, points) ==
    points # <<>> /\ check_key_points_loop(lower(text), points, 1)

check_key_points_included(text, points) ==
    check_key_points_loop(lower(text), points, 1)

polite_phrases ==
    << <<"p","l","e","a","s","e">>, <<"t","h","a","n","k"," ","y","o","u">>, <<"t","h","a","n","k","s">>, <<"a","p","p","r","e","c","i","a","t","e">>, <<"g","r","a","t","e","f","u","l">>,
       <<"k","i","n","d","l","y">>, <<"w","o","u","l","d"," ","y","o","u">>, <<"c","o","u","l","d"," ","y","o","u">>, <<"m","a","y"," ","i">>, <<"e","x","c","u","s","e"," ","m","e">>,
       <<"s","o","r","r","y">>, <<"a","p","o","l","o","g","i","z","e">>, <<"s","i","n","c","e","r","e","l","y">>, <<"r","e","g","a","r","d","s">>, <<"r","e","s","p","e","c","t","f","u","l","l","y">>,
       <<"d","e","a","r">>, <<"h","o","p","e">>, <<"l","o","o","k"," ","f","o","r","w","a","r","d">>, <<"b","e","s","t"," ","w","i","s","h","e","s">>, <<"w","a","r","m"," ","r","e","g","a","r","d","s">>,
       <<"t","h","a","n","k"," ","y","o","u"," ","f","o","r">>, <<"i"," ","a","p","p","r","e","c","i","a","t","e">>, <<"w","e"," ","a","p","p","r","e","c","i","a","t","e">>, <<"m","u","c","h"," ","a","p","p","r","e","c","i","a","t","e","d">> >>

impolite_phrases ==
    << <<"m","u","s","t">>, <<"n","e","e","d"," ","t","o">>, <<"h","a","v","e"," ","t","o">>, <<"s","h","o","u","l","d">>, <<"d","e","m","a","n","d">>, <<"r","e","q","u","i","r","e">>,
       <<"i","m","m","e","d","i","a","t","e","l","y">>, <<"a","s","a","p">>, <<"u","r","g","e","n","t">>, <<"n","o","w">>, <<"r","i","g","h","t"," ","a","w","a","y">> >>

greetings == << <<"d","e","a","r">>, <<"h","e","l","l","o">>, <<"h","i">>, <<"g","o","o","d">> >>

closings == << <<"r","e","g","a","r","d","s">>, <<"s","i","n","c","e","r","e","l","y">>, <<"b","e","s","t">>, <<"t","h","a","n","k"," ","y","o","u">> >>

\* sum(1 for phrase in phrases if phrase in text_lower)
count_phrases(phrases, text_lower) ==
    Cardinality({k \in 1..Len(phrases) : is_in(phrases[k], text_lower)})

\* any(phrase in text_lower for phrase in phrases)
any_phrase(phrases, text_lower) ==
    \E k \in 1..Len(phrases) : is_in(phrases[k], text_lower)

\* check_polite_tone with impolite_count < polite_count
check_polite_tone_strict_mut(text) ==
    LET text_lower == lower(text)
        polite_count == count_phrases(polite_phrases, text_lower)
        impolite_count == count_phrases(impolite_phrases, text_lower)
        has_greeting == any_phrase(greetings, text_lower)
        has_closing == any_phrase(closings, text_lower)
    IN (polite_count >= 2 \/ (has_greeting /\ has_closing)) /\ impolite_count < polite_count

check_polite_tone(text) ==
    LET text_lower == lower(text)
        polite_count == count_phrases(polite_phrases, text_lower)
        impolite_count == count_phrases(impolite_phrases, text_lower)
        has_greeting == any_phrase(greetings, text_lower)
        has_closing == any_phrase(closings, text_lower)
    IN (polite_count >= 2 \/ (has_greeting /\ has_closing)) /\ impolite_count <= polite_count

\* evaluate_reply returning the politeness result under the key 'is_polite'
evaluate_reply_renamed_key_mut(r, points) ==
    [ all_key_points_included |-> check_key_points_included(r, points),
      is_polite |-> check_polite_tone(r) ]

evaluate_reply(r, points) ==
    [ all_key_points_included |-> check_key_points_included(r, points),
      tone_is_polite |-> check_polite_tone(r) ]

\* point_missing without the fallback to the point's words
point_missing_verbatim_only_mut(reply_lower, point) ==
    ~is_in(lower(point), reply_lower)

\* detailed_evaluation, lines 103-110: TRUE when the point is appended to
\* missing_points
point_missing(reply_lower, point) ==
    LET point_lower == lower(point)
    IN IF ~is_in(point_lower, reply_lower)
       THEN LET words == SelectSeq(findall_words(point_lower), LAMBDA word : Len(word) > 2)
            IN ~(\E k \in 1..Len(words) : is_in(words[k], reply_lower))
       ELSE FALSE

\* missing_points collecting point_lower in place of point
missing_points_lowered_mut(r, points) ==
    LET reply_lower == lower(r)
        lowered == [i \in 1..Len(points) |-> lower(points[i])]
    IN SelectSeq(lowered, LAMBDA point : point_missing(reply_lower, point))

\* detailed_evaluation, lines 99-110: the points appended to missing_points,
\* in the order of the loop over key_points
missing_points_of(r, points) ==
    LET reply_lower == lower(r)
    IN SelectSeq(points, LAMBDA point : point_missing(reply_lower, point))

MissingNote == <<"M","i","s","s","i","n","g"," ","k","e","y"," ","p","o","i","n","t","s",":"," ">>

PoliteNote == <<"C","o","n","s","i","d","e","r"," ","a","d","d","i","n","g"," ","m","o","r","e"," ","p",
      "o","l","i","t","e"," ","l","a","n","g","u","a","g","e"," ","(","p","l","e","a","s","e",
      ","," ","t","h","a","n","k"," ","y","o","u",","," ","e","t","c",".",")">>

BriefNote == <<"R","e","p","l","y"," ","m","i","g","h","t"," ","b","e"," ","t","o","o"," ","b","r","i",
      "e","f"," ","-"," ","c","o","n","s","i","d","e","r"," ","a","d","d","i","n","g"," ","m",
      "o","r","e"," ","d","e","t","a","i","l">>

\* a raised exception: its type and str(e)
Error(type, message) == [type |-> type, message |-> message]

\* d[key] raises KeyError(key) when the dict has no such key; str(e) is
\* repr(key)
has_key(dict, key) == key \in DOMAIN dict

KeyError(key) == Error("KeyError", <<"'">> \o key \o <<"'">>)

\* detailed_evaluation reads basic_eval['tone_is_polite'] (line 116): the one
\* operation of the evaluators that is not total
detailed_evaluation_error(r, points) ==
    IF has_key(evaluate_reply(r, points), "tone_is_polite")
    THEN NoneValue
    ELSE KeyError(<<"t","o","n","e","_","i","s","_","p","o","l","i","t","e">>)

\* detailed_evaluation without the politeness suggestion of lines 116-118
detailed_evaluation_no_polite_note_mut(r, points) ==
    LET basic_eval == evaluate_reply(r, points)
        missing_points == missing_points_of(r, points)
        s1 == IF missing_points # <<>>
              THEN << MissingNote \o join(<<","," ">>, missing_points) >> ELSE <<>>
        s3 == IF split_len(r) < BriefLimit THEN << BriefNote >> ELSE <<>>
    IN [ all_key_points_included |-> basic_eval.all_key_points_included,
         tone_is_polite |-> basic_eval.tone_is_polite,
         missing_points |-> missing_points,
         word_count |-> split_len(r),
         suggestions |-> s1 \o s3 ]

detailed_evaluation(r, points) ==
    LET basic_eval == evaluate_reply(r, points)
        missing_points == missing_points_of(r, points)
        s1 == IF missing_points # <<>>
              THEN << MissingNote \o join(<<","," ">>, missing_points) >> ELSE <<>>
        s2 == IF ~basic_eval.tone_is_polite THEN << PoliteNote >> ELSE <<>>
        s3 == IF split_len(r) < BriefLimit THEN << BriefNote >> ELSE <<>>
    IN [ all_key_points_included |-> basic_eval.all_key_points_included,
         tone_is_polite |-> basic_eval.tone_is_polite,
         missing_points |-> missing_points,
         word_count |-> split_len(r),
         suggestions |-> s1 \o s2 \o s3 ]

----------------------------------------------------------------------------
(* app.py: evaluate_email *)

EmailBriefLimit == 50

VerboseLimit == 500

MoreDetailNote == <<"C","o","n","s","i","d","e","r"," ","a","d","d","i","n","g"," ","m","o","r","e"," ","d",
      "e","t","a","i","l">>

ConciseNote == <<"C","o","n","s","i","d","e","r"," ","m","a","k","i","n","g"," ","t","h","e"," ","e","m",
      "a","i","l"," ","m","o","r","e"," ","c","o","n","c","i","s","e">>

\* evaluate_email with length <= 50 in place of length < 50
evaluate_email_brief_le_mut(email_text, points) ==
    LET length == split_len(email_text)
    IN [ completeness |->
            \A i \in 1..Len(points) : is_in(lower(points[i]), lower(email_text)),
         length |-> length,
         suggestions |->
            IF length <= EmailBriefLimit THEN << MoreDetailNote >>
            ELSE IF length > VerboseLimit THEN << ConciseNote >>
            ELSE <<>> ]

evaluate_email(email_text, points) ==
    LET length == split_len(email_text)
    IN [ completeness |->
            \A i \in 1..Len(points) : is_in(lower(points[i]), lower(email_text)),
         length |-> length,
         suggestions |->
            IF length < EmailBriefLimit THEN << MoreDetailNote >>
            ELSE IF length > VerboseLimit THEN << ConciseNote >>
            ELSE <<>> ]

----------------------------------------------------------------------------
(* main.py: evaluate_reply *)

\* lines 280-294: the words that stand for a point holding the first word
main_variations ==
    << << <<"t","h","a","n","k">>, << <<"t","h","a","n","k">>, <<"a","p","p","r","e","c","i","a","t","e">>, <<"g","r","a","t","e","f","u","l">> >> >>,
       << <<"m","e","e","t","i","n","g">>, << <<"m","e","e","t","i","n","g">>, <<"a","p","p","o","i","n","t","m","e","n","t">>, <<"s","e","s","s","i","o","n">>, <<"c","o","n","f","e","r","e","n","c","e">> >> >>,
       << <<"c","o","n","f","i","r","m">>, << <<"c","o","n","f","i","r","m">>, <<"a","c","k","n","o","w","l","e","d","g","e">>, <<"v","e","r","i","f","i","e","d">>, <<"s","c","h","e","d","u","l","e","d">> >> >>,
       << <<"r","e","p","o","r","t">>, << <<"r","e","p","o","r","t">>, <<"d","o","c","u","m","e","n","t">>, <<"f","i","l","e">>, <<"a","t","t","a","c","h","m","e","n","t">> >> >>,
       << <<"a","t","t","a","c","h">>, << <<"a","t","t","a","c","h">>, <<"i","n","c","l","u","d","e">>, <<"e","n","c","l","o","s","e","d">>, <<"a","c","c","o","m","p","a","n","y","i","n","g">> >> >> >>

\* the if/elif chain of lines 280-294 from its k-th branch on
RECURSIVE main_variation_found(_, _, _)
main_variation_found(k, point_lower, reply_lower) ==
    IF k > Len(main_variations) THEN FALSE
    ELSE IF is_in(main_variations[k][1], point_lower)
         THEN any_phrase(main_variations[k][2], reply_lower)
    ELSE main_variation_found(k + 1, point_lower, reply_lower)

\* point_found demanding the point to be the whole reply
main_point_found_whole_reply_mut(reply_lower, point) == lower(point) = reply_lower

\* lines 270-294: point_found
main_point_found(reply_lower, point) ==
    IF is_in(lower(point), reply_lower) THEN TRUE
    ELSE main_variation_found(1, lower(point), reply_lower)

main_polite_indicators ==
    << <<"p","l","e","a","s","e">>, <<"t","h","a","n","k"," ","y","o","u">>, <<"t","h","a","n","k","s">>, <<"a","p","p","r","e","c","i","a","t","e">>, <<"g","r","a","t","e","f","u","l">>,
       <<"k","i","n","d","l","y">>, <<"w","o","u","l","d"," ","y","o","u">>, <<"c","o","u","l","d"," ","y","o","u">>, <<"m","a","y"," ","i">>, <<"i","f"," ","y","o","u"," ","d","o","n","'","t"," ","m","i","n","d">>,
       <<"b","e","s","t"," ","r","e","g","a","r","d","s">>, <<"s","i","n","c","e","r","e","l","y">>, <<"k","i","n","d"," ","r","e","g","a","r","d","s">>, <<"y","o","u","r","s"," ","t","r","u","l","y">>,
       <<"l","o","o","k","i","n","g"," ","f","o","r","w","a","r","d">>, <<"h","o","p","e"," ","t","o"," ","h","e","a","r">>, <<"p","l","e","a","s","e"," ","l","e","t"," ","m","e"," ","k","n","o","w">>,
       <<"i"," ","h","o","p","e">>, <<"i"," ","t","r","u","s","t">>, <<"i"," ","b","e","l","i","e","v","e">>, <<"i","f"," ","p","o","s","s","i","b","l","e">>, <<"a","t"," ","y","o","u","r"," ","c","o","n","v","e","n","i","e","n","c","e">>,
       <<"s","o","r","r","y"," ","f","o","r">>, <<"a","p","o","l","o","g","i","z","e">>, <<"e","x","c","u","s","e"," ","m","e">>, <<"p","a","r","d","o","n">>,
       <<"d","e","a","r">>, <<"r","e","s","p","e","c","t","e","d">>, <<"e","s","t","e","e","m","e","d">>, <<"h","o","n","o","r","e","d">>, <<"p","l","e","a","s","e","d"," ","t","o">>,
       <<"h","a","p","p","y"," ","t","o">>, <<"g","l","a","d"," ","t","o">>, <<"d","e","l","i","g","h","t","e","d"," ","t","o">> >>

main_impolite_indicators ==
    << <<"m","u","s","t">>, <<"n","e","e","d"," ","t","o">>, <<"h","a","v","e"," ","t","o">>, <<"s","h","o","u","l","d">>, <<"d","e","m","a","n","d">>, <<"r","e","q","u","i","r","e">>,
       <<"i","m","m","e","d","i","a","t","e","l","y">>, <<"a","s","a","p">>, <<"u","r","g","e","n","t">>, <<"n","o","w">>, <<"r","i","g","h","t"," ","a","w","a","y">>,
       <<"o","b","v","i","o","u","s","l","y">>, <<"c","l","e","a","r","l","y">>, <<"o","f"," ","c","o","u","r","s","e">>, <<"d","u","h">>, <<"s","t","u","p","i","d">>,
       <<"w","r","o","n","g">>, <<"e","r","r","o","r">>, <<"m","i","s","t","a","k","e">>, <<"f","a","i","l">>, <<"b","a","d">>, <<"t","e","r","r","i","b","l","e">> >>

\* lines 325-349: is_polite_tone
main_is_polite_tone(reply_lower) ==
    LET polite_count == count_phrases(main_polite_indicators, reply_lower)
        impolite_count == count_phrases(main_impolite_indicators, reply_lower)
        has_greeting ==
            any_phrase(<< <<"d","e","a","r">>, <<"h","e","l","l","o">>, <<"h","i">>, <<"g","r","e","e","t","i","n","g","s">> >>, reply_lower)
        has_closing ==
            any_phrase(<< <<"r","e","g","a","r","d","s">>, <<"s","i","n","c","e","r","e","l","y">>, <<"t","h","a","n","k">>, <<"b","e","s","t">> >>, reply_lower)
    IN IF polite_count = 0 /\ impolite_count = 0 /\ (has_greeting \/ has_closing)
       THEN TRUE
       ELSE polite_count > 0 /\ impolite_count <= polite_count

\* evaluate_reply: the tuple (all_points_present, is_polite_tone)
main_evaluate_reply(r, points) ==
    LET reply_lower == lower(r)
    IN << \A k \in 1..Len(points) : main_point_found(reply_lower, points[k]),
          main_is_polite_tone(reply_lower) >>

----------------------------------------------------------------------------
(* simple_app.py and app.py: build_prompt *)

EmailTypes ==
    {"custom", "thank_you", "new_article", "report_sharing", "meeting_followup",
     "project_update"}

ThankYouTemplate ==
    [ intro |-> <<"W","r","i","t","e"," ","a"," ","h","e","a","r","t","f","e","l","t"," ","t","h","a","n",
      "k"," ","y","o","u"," ","e","m","a","i","l"," ","w","i","t","h"," ","t","h","e"," ","f",
      "o","l","l","o","w","i","n","g"," ","s","p","e","c","i","f","i","c","s",":">>,
      closing |-> <<"P","l","e","a","s","e"," ","w","r","i","t","e"," ","a"," ","w","a","r","m"," ","a","n",
      "d"," ","a","p","p","r","e","c","i","a","t","i","v","e"," ","e","m","a","i","l"," ","t",
      "h","a","t"," ","e","x","p","r","e","s","s","e","s"," ","g","e","n","u","i","n","e"," ",
      "g","r","a","t","i","t","u","d","e","."," ","I","n","c","l","u","d","e"," ","s","p","e",
      "c","i","f","i","c"," ","d","e","t","a","i","l","s"," ","a","b","o","u","t"," ","w","h",
      "a","t"," ","y","o","u","'","r","e"," ","t","h","a","n","k","i","n","g"," ","t","h","e",
      "m"," ","f","o","r"," ","a","n","d"," ","h","o","w"," ","i","t"," ","i","m","p","a","c",
      "t","e","d"," ","y","o","u"," ","o","r"," ","y","o","u","r"," ","w","o","r","k",".">> ]

NewArticleTemplate ==
    [ intro |-> <<"W","r","i","t","e"," ","a","n"," ","e","n","g","a","g","i","n","g"," ","e","m","a","i",
      "l"," ","a","n","n","o","u","n","c","i","n","g"," ","a"," ","n","e","w"," ","a","r","t",
      "i","c","l","e"," ","o","r"," ","n","e","w","s"," ","w","i","t","h"," ","t","h","e","s",
      "e"," ","d","e","t","a","i","l","s",":">>,
      closing |-> <<"P","l","e","a","s","e"," ","w","r","i","t","e"," ","a","n"," ","i","n","f","o","r","m",
      "a","t","i","v","e"," ","a","n","d"," ","e","n","g","a","g","i","n","g"," ","e","m","a",
      "i","l"," ","t","h","a","t"," ","i","n","t","r","o","d","u","c","e","s"," ","t","h","e",
      " ","n","e","w"," ","c","o","n","t","e","n","t","."," ","I","n","c","l","u","d","e"," ",
      "a"," ","c","o","m","p","e","l","l","i","n","g"," ","s","u","b","j","e","c","t"," ","m",
      "a","t","t","e","r",","," ","k","e","y"," ","h","i","g","h","l","i","g","h","t","s",",",
      " ","a","n","d"," ","e","n","c","o","u","r","a","g","e"," ","t","h","e"," ","r","e","a",
      "d","e","r"," ","t","o"," ","e","n","g","a","g","e"," ","w","i","t","h"," ","t","h","e",
      " ","c","o","n","t","e","n","t",".">> ]

ReportSharingTemplate ==
    [ intro |-> <<"W","r","i","t","e"," ","a"," ","p","r","o","f","e","s","s","i","o","n","a","l"," ","e",
      "m","a","i","l"," ","f","o","r"," ","s","h","a","r","i","n","g"," ","a"," ","r","e","p",
      "o","r","t"," ","w","i","t","h"," ","t","h","e","s","e"," ","k","e","y"," ","e","l","e",
      "m","e","n","t","s",":">>,
      closing |-> <<"P","l","e","a","s","e"," ","w","r","i","t","e"," ","a"," ","c","l","e","a","r"," ","a",
      "n","d"," ","o","r","g","a","n","i","z","e","d"," ","e","m","a","i","l"," ","t","h","a",
      "t"," ","i","n","t","r","o","d","u","c","e","s"," ","t","h","e"," ","r","e","p","o","r",
      "t",","," ","h","i","g","h","l","i","g","h","t","s"," ","k","e","y"," ","f","i","n","d",
      "i","n","g","s"," ","o","r"," ","i","m","p","o","r","t","a","n","t"," ","s","e","c","t",
      "i","o","n","s",","," ","a","n","d"," ","p","r","o","v","i","d","e","s"," ","c","o","n",
      "t","e","x","t"," ","f","o","r"," ","w","h","y"," ","t","h","i","s"," ","r","e","p","o",
      "r","t"," ","i","s"," ","v","a","l","u","a","b","l","e"," ","t","o"," ","t","h","e"," ",
      "r","e","c","i","p","i","e","n","t",".">> ]

MeetingFollowupTemplate ==
    [ intro |-> <<"W","r","i","t","e"," ","a"," ","c","o","m","p","r","e","h","e","n","s","i","v","e"," ",
      "m","e","e","t","i","n","g"," ","f","o","l","l","o","w","-","u","p"," ","e","m","a","i",
      "l"," ","c","o","v","e","r","i","n","g",":">>,
      closing |-> <<"P","l","e","a","s","e"," ","w","r","i","t","e"," ","a"," ","s","t","r","u","c","t","u",
      "r","e","d"," ","f","o","l","l","o","w","-","u","p"," ","e","m","a","i","l"," ","t","h",
      "a","t"," ","s","u","m","m","a","r","i","z","e","s"," ","k","e","y"," ","d","e","c","i",
      "s","i","o","n","s",","," ","a","c","t","i","o","n"," ","i","t","e","m","s",","," ","n",
      "e","x","t"," ","s","t","e","p","s",","," ","a","n","d"," ","d","e","a","d","l","i","n",
      "e","s","."," ","M","a","k","e"," ","i","t"," ","c","l","e","a","r"," ","a","n","d"," ",
      "a","c","t","i","o","n","a","b","l","e"," ","f","o","r"," ","a","l","l"," ","p","a","r",
      "t","i","c","i","p","a","n","t","s",".">> ]

ProjectUpdateTemplate ==
    [ intro |-> <<"W","r","i","t","e"," ","a"," ","d","e","t","a","i","l","e","d"," ","p","r","o","j","e",
      "c","t"," ","u","p","d","a","t","e"," ","e","m","a","i","l"," ","i","n","c","l","u","d",
      "i","n","g",":">>,
      closing |-> <<"P","l","e","a","s","e"," ","w","r","i","t","e"," ","a","n"," ","i","n","f","o","r","m",
      "a","t","i","v","e"," ","p","r","o","j","e","c","t"," ","u","p","d","a","t","e"," ","t",
      "h","a","t"," ","c","o","v","e","r","s"," ","c","u","r","r","e","n","t"," ","p","r","o",
      "g","r","e","s","s",","," ","a","c","h","i","e","v","e","m","e","n","t","s",","," ","c",
      "h","a","l","l","e","n","g","e","s",","," ","n","e","x","t"," ","m","i","l","e","s","t",
      "o","n","e","s",","," ","a","n","d"," ","a","n","y"," ","s","u","p","p","o","r","t"," ",
      "n","e","e","d","e","d","."," ","K","e","e","p"," ","s","t","a","k","e","h","o","l","d",
      "e","r","s"," ","w","e","l","l","-","i","n","f","o","r","m","e","d",".">> ]

CustomTemplate ==
    [ intro |-> <<"W","r","i","t","e"," ","a"," ","p","r","o","f","e","s","s","i","o","n","a","l"," ","e",
      "m","a","i","l"," ","w","i","t","h"," ","t","h","e"," ","f","o","l","l","o","w","i","n",
      "g"," ","k","e","y"," ","p","o","i","n","t","s",":">>,
      closing |-> <<"P","l","e","a","s","e"," ","w","r","i","t","e"," ","a"," ","c","o","m","p","l","e","t",
      "e",","," ","w","e","l","l","-","s","t","r","u","c","t","u","r","e","d"," ","e","m","a",
      "i","l"," ","i","n","c","o","r","p","o","r","a","t","i","n","g"," ","t","h","e","s","e",
      " ","p","o","i","n","t","s",".">> ]

\* simple_app_template with the thank_you template in the else branch
simple_app_template_fallback_mut(type) ==
    IF type = "thank_you" THEN ThankYouTemplate
    ELSE IF type = "new_article" THEN NewArticleTemplate
    ELSE IF type = "report_sharing" THEN ReportSharingTemplate
    ELSE IF type = "meeting_followup" THEN MeetingFollowupTemplate
    ELSE IF type = "project_update" THEN ProjectUpdateTemplate
    ELSE IF type = "custom" THEN CustomTemplate
    ELSE ThankYouTemplate

\* the if/elif chain on email_type: the first and the last line of the
\* f-string of the branch taken (the lines between are the same in every branch)
simple_app_template(type) ==
    IF type = "thank_you" THEN ThankYouTemplate
    ELSE IF type = "new_article" THEN NewArticleTemplate
    ELSE IF type = "report_sharing" THEN ReportSharingTemplate
    ELSE IF type = "meeting_followup" THEN MeetingFollowupTemplate
    ELSE IF type = "project_update" THEN ProjectUpdateTemplate
    ELSE CustomTemplate

\* chr(10).join('- ' + point for point in key_points)
key_points_text(points) ==
    join(<<"\n">>, [i \in 1..Len(points) |-> <<"-"," ">> \o points[i]])

simple_app_build_prompt(points, tone_label, ctx, type) ==
    simple_app_template(type).intro \o <<"\n">> \o key_points_text(points)
        \o <<"\n","\n","T","o","n","e",":"," ">> \o tone_label
        \o <<"\n","A","d","d","i","t","i","o","n","a","l"," ","C","o","n","t","e","x","t",":"," ">> \o format_field(ctx)
        \o <<"\n","\n">> \o simple_app_template(type).closing

app_build_prompt(points, tone_label, ctx) ==
    <<"W","r","i","t","e"," ","a"," ","p","r","o","f","e","s","s","i","o","n","a","l"," ","e",
      "m","a","i","l"," ","w","i","t","h"," ","t","h","e"," ","f","o","l","l","o","w","i","n",
      "g"," ","k","e","y"," ","p","o","i","n","t","s",":","\n">>
        \o join(<<"\n">>, [i \in 1..Len(points) |-> <<"-"," ">> \o points[i]])
        \o <<"\n","\n","T","o","n","e",":"," ">> \o tone_label
        \o <<"\n","A","d","d","i","t","i","o","n","a","l"," ","C","o","n","t","e","x","t",":"," ">> \o format_field(ctx)
        \o <<"\n","\n","P","l","e","a","s","e"," ","w","r","i","t","e"," ","a"," ","c","o","m","p","l",
      "e","t","e",","," ","w","e","l","l","-","s","t","r","u","c","t","u","r","e","d"," ","e",
      "m","a","i","l"," ","i","n","c","o","r","p","o","r","a","t","i","n","g"," ","t","h","e",
      "s","e"," ","p","o","i","n","t","s",".">>

----------------------------------------------------------------------------
(* main.py: build_prompt *)

\* str(n) of a natural number
RECURSIVE str_of_int(_)
str_of_int(n) ==
    IF n < 10 THEN <<Digits[n + 1]>> ELSE str_of_int(n \div 10) \o <<Digits[(n % 10) + 1]>>

\* main_formatted_points numbering all but the last point
main_formatted_points_drop_last_mut(points) ==
    join(<<"\n">>, [i \in 1..(Len(points) - 1) |-> str_of_int(i) \o <<"."," ">> \o points[i]])

\* "\n".join([f"{i+1}. {point}" for i, point in enumerate(key_points)])
main_formatted_points(points) ==
    join(<<"\n">>, [i \in 1..Len(points) |-> str_of_int(i) \o <<"."," ">> \o points[i]])

MainRequirements ==
    <<"\n","\n","R","E","Q","U","I","R","E","M","E","N","T","S",":","\n","-"," ","U","s","e",
      " ","a"," ","p","r","o","f","e","s","s","i","o","n","a","l"," ","e","m","a","i","l"," ",
      "f","o","r","m","a","t"," ","w","i","t","h"," ","a","p","p","r","o","p","r","i","a","t",
      "e"," ","g","r","e","e","t","i","n","g"," ","a","n","d"," ","c","l","o","s","i","n","g",
      "\n","-"," ","E","n","s","u","r","e"," ","a","l","l"," ","k","e","y"," ","p","o","i","n",
      "t","s"," ","a","r","e"," ","n","a","t","u","r","a","l","l","y"," ","i","n","c","o","r",
      "p","o","r","a","t","e","d"," ","i","n","t","o"," ","t","h","e"," ","m","e","s","s","a",
      "g","e","\n","-"," ","M","a","i","n","t","a","i","n"," ","t","h","e"," ","s","p","e","c",
      "i","f","i","e","d"," ","t","o","n","e"," ","t","h","r","o","u","g","h","o","u","t","\n",
      "-"," ","K","e","e","p"," ","t","h","e"," ","e","m","a","i","l"," ","c","o","n","c","i",
      "s","e"," ","b","u","t"," ","c","o","m","p","r","e","h","e","n","s","i","v","e","\n","-",
      " ","U","s","e"," ","p","r","o","p","e","r"," ","b","u","s","i","n","e","s","s"," ","e",
      "m","a","i","l"," ","e","t","i","q","u","e","t","t","e","\n","-"," ","D","o"," ","n","o",
      "t"," ","i","n","c","l","u","d","e"," ","p","l","a","c","e","h","o","l","d","e","r"," ",
      "t","e","x","t"," ","l","i","k","e"," ","[","Y","o","u","r"," ","N","a","m","e","]"," ",
      "-"," ","p","r","o","v","i","d","e"," ","a"," ","c","o","m","p","l","e","t","e"," ","e",
      "m","a","i","l"," ","b","o","d","y"," ","o","n","l","y","\n","\n","P","l","e","a","s","e",
      " ","p","r","o","v","i","d","e"," ","o","n","l","y"," ","t","h","e"," ","e","m","a","i",
      "l"," ","c","o","n","t","e","n","t"," ","(","s","u","b","j","e","c","t"," ","l","i","n",
      "e"," ","a","n","d"," ","b","o","d","y",")"," ","w","i","t","h","o","u","t"," ","a","n",
      "y"," ","a","d","d","i","t","i","o","n","a","l"," ","c","o","m","m","e","n","t","a","r",
      "y",".">>

main_build_prompt(points, tone_label, ctx) ==
    LET base == <<"P","l","e","a","s","e"," ","d","r","a","f","t"," ","a"," ","p","r","o","f","e","s","s",
      "i","o","n","a","l"," ","e","m","a","i","l"," ","r","e","p","l","y"," ","w","i","t","h",
      " ","t","h","e"," ","f","o","l","l","o","w","i","n","g"," ","s","p","e","c","i","f","i",
      "c","a","t","i","o","n","s",":","\n","\n","T","O","N","E",":"," ">>
                    \o capitalize(tone_label)
                    \o <<"\n","\n","K","E","Y"," ","P","O","I","N","T","S"," ","T","O"," ","I","N","C","L","U","D",
      "E",":","\n">> \o main_formatted_points(points)
        with_context == IF truthy(ctx) THEN base \o <<"\n","\n","C","O","N","T","E","X","T",":","\n">> \o ctx.str ELSE base
    IN with_context \o MainRequirements

----------------------------------------------------------------------------
(* email_utils.py: build_prompt *)

EmailUtilsInstructions ==
    <<"\n"," "," "," "," ","\n"," "," "," "," ","P","l","e","a","s","e"," ","e","n","s","u","r",
      "e"," ","t","h","e"," ","e","m","a","i","l",":","\n"," "," "," "," ","U+2022"," ","H","a",
      "s"," ","a"," ","c","l","e","a","r"," ","s","t","r","u","c","t","u","r","e"," ","w","i",
      "t","h"," ","i","n","t","r","o","d","u","c","t","i","o","n",","," ","b","o","d","y",",",
      " ","a","n","d"," ","c","o","n","c","l","u","s","i","o","n","\n"," "," "," "," ","U+2022",
      " ","M","a","i","n","t","a","i","n","s"," ","a"," ","p","r","o","f","e","s","s","i","o",
      "n","a","l"," ","a","n","d"," ","c","o","u","r","t","e","o","u","s"," ","t","o","n","e",
      "\n"," "," "," "," ","U+2022"," ","I","n","c","l","u","d","e","s"," ","a","l","l"," ","k",
      "e","y"," ","p","o","i","n","t","s"," ","n","a","t","u","r","a","l","l","y"," ","i","n",
      " ","t","h","e"," ","f","l","o","w","\n"," "," "," "," ","U+2022"," ","U","s","e","s"," ",
      "c","l","e","a","r"," ","a","n","d"," ","c","o","n","c","i","s","e"," ","l","a","n","g",
      "u","a","g","e","\n"," "," "," "," ">>

email_utils_build_prompt(points, tone_label, ctx) ==
    LET formatted_points == join(<<"\n">>, [i \in 1..Len(points) |-> <<"U+2022"," ">> \o points[i]])
        base == <<"\n"," "," "," "," ","P","l","e","a","s","e"," ","d","r","a","f","t"," ","a"," ","p","r",
      "o","f","e","s","s","i","o","n","a","l"," ","e","m","a","i","l"," ","w","i","t","h"," ",
      "t","h","e"," ","f","o","l","l","o","w","i","n","g"," ","k","e","y"," ","p","o","i","n",
      "t","s",":","\n"," "," "," "," ","\n"," "," "," "," ">>
                    \o formatted_points \o <<"\n"," "," "," "," ","\n"," "," "," "," ","T","o","n","e",":"," ">> \o tone_label \o <<"\n"," "," "," "," ">>
        with_context ==
            IF truthy(ctx)
            THEN base \o <<"\n"," "," "," "," "," "," "," "," ","\n"," "," "," "," ","A","d","d","i","t","i","o","n",
      "a","l"," ","C","o","n","t","e","x","t",":","\n"," "," "," "," ">> \o ctx.str \o <<"\n"," "," "," "," ">>
            ELSE base
    IN strip(with_context \o EmailUtilsInstructions)

----------------------------------------------------------------------------
(* Inputs *)

SeqsUpTo(S, n) == UNION {[1..k -> S] : k \in 0..n}

\* the texts of at most n words of the vocabulary, separated by single spaces
Texts(vocabulary, n) == {join(<<" ">>, ws) : ws \in SeqsUpTo(RangeOf(vocabulary), n)}

Unset == [fn |-> "none"]

\* key points and replies for the coverage check
CoveragePoints == { <<"g","r","e","a","t"," ","m","e","e","t","i","n","g">>, <<"R","e","p","o","r","t">>, <<"o","k"," ","m","e","e","t","i","n","g">>, <<"o","k">>, <<"M","A","S","S">>, <<>> }

CoverageVocabulary == << <<"g","r","e","a","t">>, <<"R","E","P","O","R","T">>, <<"o","k">>, <<"m","a","U+00DF">> >>

\* replies for the politeness check
ToneVocabulary == << <<"P","l","e","a","s","e">>, <<"t","h","a","n","k","s">>, <<"H","i">>, <<"b","e","s","t">>, <<"m","u","s","t">>, <<"n","o","w">>, <<"D","e","a","r">> >>

\* replies for the word count: n one-letter or longer words, each followed by
\* the same whitespace
LengthCounts ==
    {0, 1, BriefLimit - 1, BriefLimit, BriefLimit + 1,
     VerboseLimit - 1, VerboseLimit, VerboseLimit + 1, VerboseLimit + 2}

LengthWords == { <<"a">>, <<"p","l","e","a","s","e">>, <<"n","o","w">> }

LengthSeparators == { <<" ">>, <<"\n">>, <<" ","\t">> }

\* word * n
Repeat(word, n) == [i \in 1..(n * Len(word)) |-> word[((i - 1) % Len(word)) + 1]]

\* inputs of build_prompt
PromptPoints == { <<"C","o","n","f","i","r","m"," ","F","r","i","d","a","y"," ","2","p","m">>, <<"B","r","i","n","g"," ","Q","3"," ","r","e","p","o","r","t">>, <<" ","x","\n">>, <<>> }

PromptTones == { <<"f","o","r","m","a","l">>, <<"f","R","I","E","N","D","L","Y">>, <<>> }

PromptContexts == { NoneValue, Some(<<>>), Some(<<" ">>), Some(<<"F","o","l","l","o","w","-","u","p"," ","t","o"," ","c","l","i","e","n","t">>) }

PromptEmailTypes == EmailTypes \cup {"other", ""}

\* no client object
NoClient == [constructed |-> FALSE]

\* no gateway call made
NoCall == [fn |-> "none"]

\* the gateway, the form handler and the attachment list are not in use
NoGateway ==
    /\ env = NoneValue
    /\ client = NoClient
    /\ call = NoCall
    /\ requests = <<>>

\* no form submitted
NoFields == [app |-> "none"]

NoForm ==
    /\ pc = "idle"
    /\ log = <<>>
    /\ response = NoneValue
    /\ form = NoFields

NoSession == attachments = <<>>

\* the script's variables success and message: not assigned
Unbound == [bound |-> FALSE]

\* no call of send_email was made
NoMail == [invoked |-> FALSE]

\* the app is not running
NoSettings == [smtp_password |-> NoneValue]

NoSend ==
    /\ settings = NoSettings
    /\ result = Unbound
    /\ mail = NoMail
    /\ shown = <<>>

NoPromptInputs ==
    /\ tone = <<>>
    /\ context = NoneValue
    /\ email_type = "custom"

InitCoverage ==
    /\ reply \in Texts(CoverageVocabulary, MaxReplyWords)
    /\ key_points \in SeqsUpTo(CoveragePoints, MaxPoints)
    /\ NoPromptInputs
    /\ ret = Unset
    /\ NoGateway /\ NoForm /\ NoSession /\ NoSend

InitTone ==
    /\ reply \in Texts(ToneVocabulary, MaxReplyWords)
    /\ key_points \in {<<>>, << <<"R","e","p","o","r","t">> >>}
    /\ NoPromptInputs
    /\ ret = Unset
    /\ NoGateway /\ NoForm /\ NoSession /\ NoSend

InitLength ==
    /\ \E n \in LengthCounts, word \in LengthWords, sep \in LengthSeparators :
          reply = Repeat(word \o sep, n)
    /\ key_points \in {<<>>, << <<"n","o","w">> >>}
    /\ NoPromptInputs
    /\ ret = Unset
    /\ NoGateway /\ NoForm /\ NoSession /\ NoSend

\* the empty and the one-character inputs next to ordinary ones
EdgeReplies == { <<>>, <<" ">>, <<"D","e","a","r"," ","a","l","l",","," ","t","h","a","n","k","s">> }

EdgePoints == { <<>>, <<"o","k">>, <<"R","e","p","o","r","t">> }

EdgeTones == { <<>>, <<"f","o","r","m","a","l">> }

EdgeContexts == { NoneValue, Some(<<>>), Some(<<"r","e">>) }

EdgeEmailTypes == { "custom", "thank_you", "" }

InitEdge ==
    /\ reply \in EdgeReplies
    /\ key_points \in SeqsUpTo(EdgePoints, MaxPoints)
    /\ tone \in EdgeTones
    /\ context \in EdgeContexts
    /\ email_type \in EdgeEmailTypes
    /\ ret = Unset
    /\ NoGateway /\ NoForm /\ NoSession /\ NoSend

InitPrompt ==
    /\ reply = <<>>
    /\ key_points \in SeqsUpTo(PromptPoints, MaxPoints)
    /\ tone \in PromptTones
    /\ context \in PromptContexts
    /\ email_type \in PromptEmailTypes
    /\ ret = Unset
    /\ NoGateway /\ NoForm /\ NoSession /\ NoSend

----------------------------------------------------------------------------
(* One action per function: the call and what it returns *)

EvaluateReply ==
    /\ ret = Unset
    /\ ret' = [fn |-> "evaluation_utils.evaluate_reply",
               value |-> evaluate_reply(reply, key_points)]
    /\ UNCHANGED <<reply, key_points, tone, context, email_type>>
    /\ UNCHANGED <<gateway_vars, form_vars, session_vars, send_vars>>

DetailedEvaluation ==
    /\ ret = Unset
    /\ ret' = IF detailed_evaluation_error(reply, key_points) = NoneValue
              THEN [fn |-> "evaluation_utils.detailed_evaluation",
                    value |-> detailed_evaluation(reply, key_points)]
              ELSE [fn |-> "evaluation_utils.detailed_evaluation",
                    error |-> detailed_evaluation_error(reply, key_points)]
    /\ UNCHANGED <<reply, key_points, tone, context, email_type>>
    /\ UNCHANGED <<gateway_vars, form_vars, session_vars, send_vars>>

EvaluateEmail ==
    /\ ret = Unset
    /\ ret' = [fn |-> "app.evaluate_email", value |-> evaluate_email(reply, key_points)]
    /\ UNCHANGED <<reply, key_points, tone, context, email_type>>
    /\ UNCHANGED <<gateway_vars, form_vars, session_vars, send_vars>>

SimpleAppBuildPrompt ==
    /\ ret = Unset
    /\ ret' = [fn |-> "simple_app.build_prompt",
               value |-> simple_app_build_prompt(key_points, tone, context, email_type)]
    /\ UNCHANGED <<reply, key_points, tone, context, email_type>>
    /\ UNCHANGED <<gateway_vars, form_vars, session_vars, send_vars>>

\* app.py declares context: str, so None is not passed
AppBuildPrompt ==
    /\ ret = Unset
    /\ ~context.is_none
    /\ ret' = [fn |-> "app.build_prompt",
               value |-> app_build_prompt(key_points, tone, context)]
    /\ UNCHANGED <<reply, key_points, tone, context, email_type>>
    /\ UNCHANGED <<gateway_vars, form_vars, session_vars, send_vars>>

MainBuildPrompt ==
    /\ ret = Unset
    /\ ret' = [fn |-> "main.build_prompt",
               value |-> main_build_prompt(key_points, tone, context)]
    /\ UNCHANGED <<reply, key_points, tone, context, email_type>>
    /\ UNCHANGED <<gateway_vars, form_vars, session_vars, send_vars>>

EmailUtilsBuildPrompt ==
    /\ ret = Unset
    /\ ret' = [fn |-> "email_utils.build_prompt",
               value |-> email_utils_build_prompt(key_points, tone, context)]
    /\ UNCHANGED <<reply, key_points, tone, context, email_type>>
    /\ UNCHANGED <<gateway_vars, form_vars, session_vars, send_vars>>

MainEvaluateReply ==
    /\ ret = Unset
    /\ ret' = [fn |-> "main.evaluate_reply", value |-> main_evaluate_reply(reply, key_points)]
    /\ UNCHANGED <<reply, key_points, tone, context, email_type>>
    /\ UNCHANGED <<gateway_vars, form_vars, session_vars, send_vars>>

NextEvaluate == EvaluateReply \/ DetailedEvaluation \/ EvaluateEmail

NextPrompt ==
    SimpleAppBuildPrompt \/ AppBuildPrompt \/ MainBuildPrompt \/ EmailUtilsBuildPrompt

NextFunctions == NextEvaluate \/ NextPrompt

\* the three evaluators of the coverage side by side
NextEvaluators == EvaluateReply \/ EvaluateEmail \/ MainEvaluateReply

SpecEvaluators == InitCoverage /\ [][NextEvaluators]_vars

SpecCoverage == InitCoverage /\ [][NextEvaluate]_vars

SpecTone == InitTone /\ [][NextEvaluate]_vars

SpecLength == InitLength /\ [][NextEvaluate]_vars

SpecPrompt == InitPrompt /\ [][NextPrompt]_vars

SpecEdge == InitEdge /\ [][NextFunctions]_vars

----------------------------------------------------------------------------
(* main.py, simple_app.py, app.py, groq_utils.py: the completion gateway *)

\* Optional numbers: None, or the number n.  A temperature is held in
\* tenths: 0.7 is Number(7), 0.0 is Number(0).
NoNumber == [is_none |-> TRUE, num |-> 0]

Number(n) == [is_none |-> FALSE, num |-> n]

\* bool(x) of an Optional number: None and 0 are false
truthy_number(opt) == ~opt.is_none /\ opt.num # 0

\* a or b
or_str(a, b) == IF truthy(a) THEN a ELSE b

or_number(a, b) == IF truthy_number(a) THEN a ELSE b

DefaultModel == <<"l","l","a","m","a","-","3",".","1","-","8","b","-","i","n","s","t","a","n","t">>

DefaultMaxTokens == 1024

\* self.default_temperature = 0.7, in tenths
DefaultTemperature == 7

\* raise ValueError(...) of the three GroqAPIClient constructors
MainApiKeyRequired ==
    <<"G","r","o","q"," ","A","P","I"," ","k","e","y"," ","i","s"," ","r","e","q","u","i","r",
      "e","d","."," ","S","e","t"," ","G","R","O","Q","_","A","P","I","_","K","E","Y"," ","e",
      "n","v","i","r","o","n","m","e","n","t"," ","v","a","r","i","a","b","l","e"," ","o","r",
      " ","p","a","s","s"," ","i","t"," ","d","i","r","e","c","t","l","y"," ","t","o"," ","t",
      "h","e"," ","c","o","n","s","t","r","u","c","t","o","r",".">>

ApiKeyRequired == <<"G","r","o","q"," ","A","P","I"," ","k","e","y"," ","i","s"," ","r","e","q","u","i","r",
      "e","d">>

ValueError(message) == Error("ValueError", message)

\* self.api_key = api_key or os.getenv('GROQ_API_KEY')
resolve_api_key(api_key, environ) == or_str(api_key, environ)

\* GroqAPIClient.__init__ constructing a client whatever the key
GroqAPIClient_init_error_unchecked_mut(module, api_key, environ) == NoneValue

\* GroqAPIClient.__init__: the exception it raises, None when it returns
GroqAPIClient_init_error(module, api_key, environ) ==
    IF ~truthy(resolve_api_key(api_key, environ))
    THEN ValueError(IF module = "main" THEN MainApiKeyRequired ELSE ApiKeyRequired)
    ELSE NoneValue

\* GroqAPIClient.__init__: the object it leaves
GroqAPIClient_init(module, api_key, environ) ==
    [constructed |-> TRUE, module |-> module,
     api_key |-> resolve_api_key(api_key, environ)]

\* groq.Groq(api_key=None) looks GROQ_API_KEY up itself and raises GroqError
\* when the variable is unset; any string, the empty one included, is taken
GroqKeyMissing ==
    <<"T","h","e"," ","a","p","i","_","k","e","y"," ","c","l","i","e","n","t"," ","o","p","t",
      "i","o","n"," ","m","u","s","t"," ","b","e"," ","s","e","t"," ","e","i","t","h","e","r",
      " ","b","y"," ","p","a","s","s","i","n","g"," ","a","p","i","_","k","e","y"," ","t","o",
      " ","t","h","e"," ","c","l","i","e","n","t"," ","o","r"," ","b","y"," ","s","e","t","t",
      "i","n","g"," ","t","h","e"," ","G","R","O","Q","_","A","P","I","_","K","E","Y"," ","e",
      "n","v","i","r","o","n","m","e","n","t"," ","v","a","r","i","a","b","l","e">>

groq_Groq_error(api_key, environ) ==
    IF api_key.is_none /\ environ.is_none
    THEN Error("GroqError", GroqKeyMissing)
    ELSE NoneValue

\* what the provider does with one request: a completion whose first choice
\* has a text, an empty text or no content; a completion without choices; a
\* failed call (network, authentication, rate limit)
NoError == Error("none", <<>>)

ProviderOutcomes ==
    { [kind |-> "content", content |-> Some(<<"D","e","a","r"," ","S","a","m",","," ","t","h","a","n","k"," ","y","o","u",".">>), error |-> NoError],
      [kind |-> "content", content |-> Some(<<>>), error |-> NoError],
      [kind |-> "content", content |-> NoneValue, error |-> NoError],
      [kind |-> "no_choices", content |-> NoneValue, error |-> NoError],
      [kind |-> "error", content |-> NoneValue,
       error |-> Error("APIConnectionError", <<"C","o","n","n","e","c","t","i","o","n"," ","e","r","r","o","r",".">>)],
      [kind |-> "error", content |-> NoneValue,
       error |-> Error("RateLimitError", <<"E","r","r","o","r"," ","c","o","d","e",":"," ","4","2","9">>)] }

\* completion.choices[0] of an empty list
IndexError == Error("IndexError", <<"l","i","s","t"," ","i","n","d","e","x"," ","o","u","t"," ","o","f"," ","r","a","n","g",
      "e">>)

\* client.chat.completions.create(...) followed by
\* completion.choices[0].message.content: the exception the try block
\* catches, None when the content is returned
completion_error(outcome) ==
    IF outcome.kind = "error" THEN outcome.error
    ELSE IF outcome.kind = "no_choices" THEN IndexError
    ELSE NoneValue

\* the remote call failed: it raised, or its response has no choice
provider_failed(outcome) == outcome.kind \in {"error", "no_choices"}

SystemRole == "system"

UserRole == "user"

\* send_prompt with the system message appended after the user message
main_messages_system_last_mut(prompt, system_message) ==
    << [role |-> UserRole, content |-> prompt] >>
    \o (IF truthy(system_message)
        THEN << [role |-> SystemRole, content |-> system_message.str] >>
        ELSE <<>>)

\* main.py send_prompt, lines 69-80: the message list
main_messages(prompt, system_message) ==
    (IF truthy(system_message)
     THEN << [role |-> SystemRole, content |-> system_message.str] >>
     ELSE <<>>)
    \o << [role |-> UserRole, content |-> prompt] >>

\* main.py send_prompt and send_conversation, lines 65-67 and 83-88: the
\* request handed to chat.completions.create
main_request(messages, model, max_tokens, temperature) ==
    [ model |-> or_str(model, Some(DefaultModel)),
      messages |-> messages,
      max_tokens |-> or_number(max_tokens, Number(DefaultMaxTokens)),
      temperature |-> or_number(temperature, Number(DefaultTemperature)) ]

\* simple_app.py and app.py send_prompt(prompt, temperature=0.7): a
\* temperature that is not supplied is the parameter default
app_request(prompt, temperature) ==
    [ model |-> Some(DefaultModel),
      messages |-> << [role |-> UserRole, content |-> prompt] >>,
      max_tokens |-> NoNumber,
      temperature |-> IF temperature.is_none THEN Number(DefaultTemperature)
                      ELSE temperature ]

\* groq_utils.generate_reply, lines 22-26
groq_utils_request(prompt) ==
    [ model |-> Some(DefaultModel),
      messages |-> << [role |-> UserRole, content |-> prompt] >>,
      max_tokens |-> NoNumber,
      temperature |-> Number(DefaultTemperature) ]

SendPromptFailed == <<"F","a","i","l","e","d"," ","t","o"," ","g","e","t"," ","r","e","s","p","o","n","s","e",
      " ","f","r","o","m"," ","G","r","o","q"," ","A","P","I",":"," ">>

GenerateReplyFailed == <<"F","a","i","l","e","d"," ","t","o"," ","g","e","n","e","r","a","t","e"," ","r","e","p",
      "l","y",":"," ">>

GroqUtilsFailed == <<"E","r","r","o","r"," ","g","e","n","e","r","a","t","i","n","g"," ","r","e","s","p","o",
      "n","s","e"," ","f","r","o","m"," ","G","r","o","q",":"," ">>

\* send_prompt raising without the cause's message
send_prompt_error_no_cause_mut(cause) == Error("Exception", SendPromptFailed)

\* raise Exception(f"Failed to get response from Groq API: {str(e)}")
send_prompt_error(cause) == Error("Exception", SendPromptFailed \o cause.message)

\* raise Exception(f"Failed to generate reply: {str(e)}")
main_generate_reply_error(cause) ==
    Error("Exception", GenerateReplyFailed \o cause.message)

\* raise Exception(f"Error generating response from Groq: {str(e)}")
groq_utils_error(cause) == Error("Exception", GroqUtilsFailed \o cause.message)

----------------------------------------------------------------------------
(* Inputs of the gateway *)

GatewayModules == {"main", "simple_app", "app"}

ApiKeys == { NoneValue, Some(<<>>), Some(<<"g","s","k","_","1">>) }

Environments == { NoneValue, Some(<<>>), Some(<<"g","s","k","_","2">>) }

GatewayPrompts == { <<"W","r","i","t","e"," ","t","o"," ","S","a","m">>, <<>> }

Models == { NoneValue, Some(<<>>), Some(<<"g","e","m","m","a","2","-","9","b","-","i","t">>) }

MaxTokens == { NoNumber, Number(0), Number(256) }

\* None, 0.0, 0.3, 0.7, 1.0
Temperatures == { NoNumber, Number(0), Number(3), Number(7), Number(10) }

SystemMessages == { NoneValue, Some(<<>>), Some(<<"B","e"," ","b","r","i","e","f",".">>) }

Conversations ==
    { <<>>,
      << [role |-> UserRole, content |-> <<"W","r","i","t","e"," ","t","o"," ","S","a","m">>] >>,
      << [role |-> UserRole, content |-> <<"H","i">>],
         [role |-> "assistant", content |-> <<"H","e","l","l","o">>],
         [role |-> UserRole, content |-> <<"W","r","i","t","e"," ","t","o"," ","S","a","m">>] >> }

InitGateway ==
    /\ reply = <<>>
    /\ key_points = <<>>
    /\ NoPromptInputs
    /\ ret = Unset
    /\ env \in Environments
    /\ client = NoClient
    /\ call = NoCall
    /\ requests = <<>>
    /\ NoForm /\ NoSession /\ NoSend

----------------------------------------------------------------------------
(* The gateway's entry points *)

\* GroqAPIClient(api_key) of main.py, simple_app.py and app.py
NewGroqAPIClient ==
    /\ ret = Unset
    /\ client = NoClient
    /\ \E module \in GatewayModules, api_key \in ApiKeys :
          /\ call' = [fn |-> "GroqAPIClient", module |-> module, api_key |-> api_key]
          /\ IF GroqAPIClient_init_error(module, api_key, env) = NoneValue
             THEN /\ client' = GroqAPIClient_init(module, api_key, env)
                  /\ ret' = ret
             ELSE /\ client' = client
                  /\ ret' = [fn |-> "GroqAPIClient",
                             error |-> GroqAPIClient_init_error(module, api_key, env)]
    /\ UNCHANGED <<env, requests>>
    /\ UNCHANGED <<function_vars, form_vars, session_vars, send_vars>>

\* main.py GroqAPIClient.send_prompt
MainSendPrompt ==
    /\ ret = Unset
    /\ client.constructed
    /\ client.module = "main"
    /\ \E prompt \in GatewayPrompts, model \in Models, max_tokens \in MaxTokens,
          temperature \in Temperatures, system_message \in SystemMessages,
          outcome \in ProviderOutcomes :
          /\ call' = [fn |-> "main.send_prompt", prompt |-> prompt, model |-> model,
                      max_tokens |-> max_tokens, temperature |-> temperature,
                      system_message |-> system_message, outcome |-> outcome]
          /\ requests' = Append(requests,
                main_request(main_messages(prompt, system_message),
                             model, max_tokens, temperature))
          /\ ret' = IF completion_error(outcome) = NoneValue
                    THEN [fn |-> "main.send_prompt", value |-> outcome.content]
                    ELSE [fn |-> "main.send_prompt",
                          error |-> send_prompt_error(completion_error(outcome))]
    /\ UNCHANGED <<env, client>>
    /\ UNCHANGED <<function_vars, form_vars, session_vars, send_vars>>

\* main.py GroqAPIClient.send_conversation
MainSendConversation ==
    /\ ret = Unset
    /\ client.constructed
    /\ client.module = "main"
    /\ \E messages \in Conversations, model \in Models, max_tokens \in MaxTokens,
          temperature \in Temperatures, outcome \in ProviderOutcomes :
          /\ call' = [fn |-> "main.send_conversation", messages |-> messages,
                      model |-> model, max_tokens |-> max_tokens,
                      temperature |-> temperature, outcome |-> outcome]
          /\ requests' = Append(requests,
                main_request(messages, model, max_tokens, temperature))
          /\ ret' = IF completion_error(outcome) = NoneValue
                    THEN [fn |-> "main.send_conversation", value |-> outcome.content]
                    ELSE [fn |-> "main.send_conversation",
                          error |-> send_prompt_error(completion_error(outcome))]
    /\ UNCHANGED <<env, client>>
    /\ UNCHANGED <<function_vars, form_vars, session_vars, send_vars>>

\* simple_app.py and app.py GroqAPIClient.send_prompt
AppSendPrompt ==
    /\ ret = Unset
    /\ client.constructed
    /\ client.module \in {"simple_app", "app"}
    /\ \E prompt \in GatewayPrompts, temperature \in Temperatures,
          outcome \in ProviderOutcomes :
          /\ call' = [fn |-> "app.send_prompt", prompt |-> prompt,
                      temperature |-> temperature, outcome |-> outcome]
          /\ requests' = Append(requests, app_request(prompt, temperature))
          /\ ret' = IF completion_error(outcome) = NoneValue
                    THEN [fn |-> "app.send_prompt", value |-> outcome.content]
                    ELSE [fn |-> "app.send_prompt",
                          error |-> send_prompt_error(completion_error(outcome))]
    /\ UNCHANGED <<env, client>>
    /\ UNCHANGED <<function_vars, form_vars, session_vars, send_vars>>

\* main.py generate_reply(prompt): GroqAPIClient() and send_prompt(prompt,
\* model="llama-3.1-8b-instant", temperature=0.7) inside one try block
MainGenerateReply ==
    /\ ret = Unset
    /\ client = NoClient
    /\ \E prompt \in GatewayPrompts, outcome \in ProviderOutcomes :
          /\ call' = [fn |-> "main.generate_reply", prompt |-> prompt,
                      outcome |-> outcome]
          /\ IF GroqAPIClient_init_error("main", NoneValue, env) # NoneValue
             THEN /\ requests' = requests
                  /\ ret' = [fn |-> "main.generate_reply",
                             error |-> main_generate_reply_error(
                                GroqAPIClient_init_error("main", NoneValue, env))]
             ELSE /\ requests' = Append(requests,
                        main_request(main_messages(prompt, NoneValue),
                                     Some(DefaultModel), NoNumber,
                                     Number(DefaultTemperature)))
                  /\ ret' = IF completion_error(outcome) = NoneValue
                            THEN [fn |-> "main.generate_reply",
                                  value |-> outcome.content]
                            ELSE [fn |-> "main.generate_reply",
                                  error |-> main_generate_reply_error(
                                     send_prompt_error(completion_error(outcome)))]
    /\ UNCHANGED <<env, client>>
    /\ UNCHANGED <<function_vars, form_vars, session_vars, send_vars>>

\* groq_utils.py generate_reply(prompt): groq.Groq(...) outside the try
\* block, the request inside it
GroqUtilsGenerateReply ==
    /\ ret = Unset
    /\ client = NoClient
    /\ \E prompt \in GatewayPrompts, outcome \in ProviderOutcomes :
          /\ call' = [fn |-> "groq_utils.generate_reply", prompt |-> prompt,
                      outcome |-> outcome]
          /\ IF groq_Groq_error(env, env) # NoneValue
             THEN /\ requests' = requests
                  /\ ret' = [fn |-> "groq_utils.generate_reply",
                             error |-> groq_Groq_error(env, env)]
             ELSE /\ requests' = Append(requests, groq_utils_request(prompt))
                  /\ ret' = IF completion_error(outcome) = NoneValue
                            THEN [fn |-> "groq_utils.generate_reply",
                                  value |-> outcome.content]
                            ELSE [fn |-> "groq_utils.generate_reply",
                                  error |-> groq_utils_error(completion_error(outcome))]
    /\ UNCHANGED <<env, client>>
    /\ UNCHANGED <<function_vars, form_vars, session_vars, send_vars>>

NextGateway ==
    \/ NewGroqAPIClient
    \/ MainSendPrompt
    \/ MainSendConversation
    \/ AppSendPrompt
    \/ MainGenerateReply
    \/ GroqUtilsGenerateReply

SpecGateway == InitGateway /\ [][NextGateway]_vars

----------------------------------------------------------------------------
(* app.py: the attachments of the session *)

\* uploaded_file.size > 10 * 1024 * 1024
MaxFileSize == 10 * 1024 * 1024

\* uploaded_file is None
NoFile == [is_none |-> TRUE]

UploadedFile(name, type, size) ==
    [is_none |-> FALSE, name |-> name, type |-> type, size |-> size]

\* sum(att['size'] for att in st.session_state.attachments)
RECURSIVE total_size(_)
total_size(files) ==
    IF files = <<>> THEN 0 ELSE Head(files).size + total_size(Tail(files))

FileTooLarge == <<"F","i","l","e"," ","s","i","z","e"," ","e","x","c","e","e","d","s"," ","1","0","M","B",
      " ","l","i","m","i","t">>

FileAlreadyAttached == <<"F","i","l","e"," ","a","l","r","e","a","d","y"," ","a","t","t","a","c","h","e","d">>

NoFileProvided == <<"N","o"," ","f","i","l","e"," ","p","r","o","v","i","d","e","d">>

\* the name compared with the last attachment only
already_attached_last_only_mut(files, name) ==
    files # <<>> /\ files[Len(files)].name = name

\* any(f['name'] == file_info['name'] for f in st.session_state.attachments)
already_attached(files, name) == \E k \in 1..Len(files) : files[k].name = name

\* handle_uploaded_file without the check of the file's size
handle_uploaded_file_result_no_size_check_mut(files, uploaded_file) ==
    IF uploaded_file.is_none THEN << FALSE, NoFileProvided >>
    ELSE IF ~already_attached(files, uploaded_file.name)
         THEN << TRUE, <<"A","d","d","e","d"," ">> \o uploaded_file.name >>
    ELSE << FALSE, FileAlreadyAttached >>

\* handle_uploaded_file: the (success, message) pair it returns
handle_uploaded_file_result(files, uploaded_file) ==
    IF uploaded_file.is_none THEN << FALSE, NoFileProvided >>
    ELSE IF uploaded_file.size > MaxFileSize THEN << FALSE, FileTooLarge >>
    ELSE IF ~already_attached(files, uploaded_file.name)
         THEN << TRUE, <<"A","d","d","e","d"," ">> \o uploaded_file.name >>
    ELSE << FALSE, FileAlreadyAttached >>

\* handle_uploaded_file: st.session_state.attachments as it leaves it
handle_uploaded_file_attachments(files, uploaded_file) ==
    IF handle_uploaded_file_result(files, uploaded_file)[1]
    THEN Append(files, [name |-> uploaded_file.name, type |-> uploaded_file.type,
                        size |-> uploaded_file.size])
    ELSE files

\* list.pop(idx), idx counted from 1
pop(files, idx) == SubSeq(files, 1, idx - 1) \o SubSeq(files, idx + 1, Len(files))

----------------------------------------------------------------------------
(* Inputs of the uploader *)

UploadNames == { <<"a",".","t","x","t">>, <<"b",".","p","d","f">>, <<"c",".","p","n","g">> }

UploadSizes == { 0, 1024, MaxFileSize, MaxFileSize + 1 }

UploadedFiles ==
    { UploadedFile(name, "application/octet-stream", size) :
         name \in UploadNames, size \in UploadSizes }

InitSession ==
    /\ reply = <<>>
    /\ key_points = <<>>
    /\ NoPromptInputs
    /\ ret = Unset
    /\ NoGateway /\ NoForm /\ NoSend
    /\ attachments = <<>>

----------------------------------------------------------------------------
(* Uploads and removals *)

\* handle_uploaded_file(uploaded_file)
HandleUploadedFile ==
    /\ \E uploaded_file \in UploadedFiles \cup {NoFile} :
          /\ call' = [fn |-> "app.handle_uploaded_file", uploaded_file |-> uploaded_file]
          /\ ret' = [fn |-> "app.handle_uploaded_file",
                     value |-> handle_uploaded_file_result(attachments, uploaded_file)]
          /\ attachments' = handle_uploaded_file_attachments(attachments, uploaded_file)
    /\ UNCHANGED <<env, client, requests>>
    /\ UNCHANGED <<function_vars, form_vars, send_vars>>

\* the remove button of an attachment: st.session_state.attachments.pop(idx)
RemoveAttachment ==
    /\ \E idx \in 1..Len(attachments) :
          /\ call' = [fn |-> "app.remove_attachment", idx |-> idx]
          /\ ret' = [fn |-> "app.remove_attachment", value |-> attachments[idx]]
          /\ attachments' = pop(attachments, idx)
    /\ UNCHANGED <<env, client, requests>>
    /\ UNCHANGED <<function_vars, form_vars, send_vars>>

NextSession == HandleUploadedFile \/ RemoveAttachment

SpecSession == InitSession /\ [][NextSession]_vars

----------------------------------------------------------------------------
(* app.py: get_email_template, the texts of the templates *)

\* templates["newsletter"]["html"] (from line 120)
newsletter_html ==
    <<"\n"," "," "," "," "," "," "," "," "," "," "," "," ","<","!","D","O","C","T","Y","P","E",
      " ","h","t","m","l",">","\n"," "," "," "," "," "," "," "," "," "," "," "," ","<","h","t",
      "m","l",">","\n"," "," "," "," "," "," "," "," "," "," "," "," ","<","h","e","a","d",">",
      "\n"," "," "," "," "," "," "," "," "," "," "," "," "," "," "," "," ","<","s","t","y","l",
      "e",">","\n"," "," "," "," "," "," "," "," "," "," "," "," "," "," "," "," "," "," "," ",
      " ","b","o","d","y"," ","{"," ","f","o","n","t","-","f","a","m","i","l","y",":"," ","'",
      "S","e","g","o","e"," ","U","I","'",","," ","s","a","n","s","-","s","e","r","i","f",";",
      " ","l","i","n","e","-","h","e","i","g","h","t",":"," ","1",".","6",";"," ","c","o","l",
      "o","r",":"," ","#","3","3","3",";"," ","}","\n"," "," "," "," "," "," "," "," "," "," ",
      " "," "," "," "," "," "," "," "," "," ",".","c","o","n","t","a","i","n","e","r"," ","{",
      " ","m","a","x","-","w","i","d","t","h",":"," ","6","0","0","p","x",";"," ","m","a","r",
      "g","i","n",":"," ","0"," ","a","u","t","o",";"," ","p","a","d","d","i","n","g",":"," ",
      "2","0","p","x",";"," ","}","\n"," "," "," "," "," "," "," "," "," "," "," "," "," "," ",
      " "," "," "," "," "," ",".","h","e","a","d","e","r"," ","{"," ","b","a","c","k","g","r",
      "o","u","n","d",":"," ","#","2","1","9","6","F","3",";"," ","c","o","l","o","r",":"," ",
      "w","h","i","t","e",";"," ","p","a","d","d","i","n","g",":"," ","3","0","p","x",";"," ",
      "t","e","x","t","-","a","l","i","g","n",":"," ","c","e","n","t","e","r",";"," ","b","o",
      "r","d","e","r","-","r","a","d","i","u","s",":"," ","5","p","x"," ","5","p","x"," ","0",
      " ","0",";"," ","}","\n"," "," "," "," "," "," "," "," "," "," "," "," "," "," "," "," ",
      " "," "," "," ",".","c","o","n","t","e","n","t"," ","{"," ","b","a","c","k","g","r","o",
      "u","n","d",":"," ","#","f","f","f",";"," ","p","a","d","d","i","n","g",":"," ","3","0",
      "p","x",";"," ","b","o","r","d","e","r",":"," ","1","p","x"," ","s","o","l","i","d"," ",
      "#","e","0","e","0","e","0",";"," ","}","\n"," "," "," "," "," "," "," "," "," "," "," ",
      " "," "," "," "," "," "," "," "," ",".","f","o","o","t","e","r"," ","{"," ","t","e","x",
      "t","-","a","l","i","g","n",":"," ","c","e","n","t","e","r",";"," ","p","a","d","d","i",
      "n","g",":"," ","2","0","p","x",";"," ","f","o","n","t","-","s","i","z","e",":"," ","1",
      "2","p","x",";"," ","c","o","l","o","r",":"," ","#","6","6","6",";"," ","}","\n"," "," ",
      " "," "," "," "," "," "," "," "," "," "," "," "," "," "," "," "," "," ",".","b","u","t",
      "t","o","n"," ","{"," ","d","i","s","p","l","a","y",":"," ","i","n","l","i","n","e","-",
      "b","l","o","c","k",";"," ","p","a","d","d","i","n","g",":"," ","1","0","p","x"," ","2",
      "0","p","x",";"," ","b","a","c","k","g","r","o","u","n","d",":"," ","#","2","1","9","6",
      "F","3",";"," ","c","o","l","o","r",":"," ","w","h","i","t","e",";"," ","t","e","x","t",
      "-","d","e","c","o","r","a","t","i","o","n",":"," ","n","o","n","e",";"," ","b","o","r",
      "d","e","r","-","r","a","d","i","u","s",":"," ","5","p","x",";"," ","}","\n"," "," "," ",
      " "," "," "," "," "," "," "," "," "," "," "," "," ","<","/","s","t","y","l","e",">","\n",
      " "," "," "," "," "," "," "," "," "," "," "," ","<","/","h","e","a","d",">","\n"," "," ",
      " "," "," "," "," "," "," "," "," "," ","<","b","o","d","y",">","\n"," "," "," "," "," ",
      " "," "," "," "," "," "," "," "," "," "," ","<","d","i","v"," ","c","l","a","s","s","=",
      "\"","c","o","n","t","a","i","n","e","r","\"",">","\n"," "," "," "," "," "," "," "," ",
      " "," "," "," "," "," "," "," "," "," "," "," ","<","d","i","v"," ","c","l","a","s","s",
      "=","\"","h","e","a","d","e","r","\"",">","\n"," "," "," "," "," "," "," "," "," "," ",
      " "," "," "," "," "," "," "," "," "," "," "," "," "," ","<","h","1",">","{","h","e","a",
      "d","e","r","}","<","/","h","1",">","\n"," "," "," "," "," "," "," "," "," "," "," "," ",
      " "," "," "," "," "," "," "," ","<","/","d","i","v",">","\n"," "," "," "," "," "," "," ",
      " "," "," "," "," "," "," "," "," "," "," "," "," ","<","d","i","v"," ","c","l","a","s",
      "s","=","\"","c","o","n","t","e","n","t","\"",">","\n"," "," "," "," "," "," "," "," ",
      " "," "," "," "," "," "," "," "," "," "," "," "," "," "," "," ","{","c","o","n","t","e",
      "n","t","}","\n"," "," "," "," "," "," "," "," "," "," "," "," "," "," "," "," "," "," ",
      " "," ","<","/","d","i","v",">","\n"," "," "," "," "," "," "," "," "," "," "," "," "," ",
      " "," "," "," "," "," "," ","<","d","i","v"," ","c","l","a","s","s","=","\"","f","o","o",
      "t","e","r","\"",">","\n"," "," "," "," "," "," "," "," "," "," "," "," "," "," "," "," ",
      " "," "," "," "," "," "," "," ","{","f","o","o","t","e","r","}","\n"," "," "," "," "," ",
      " "," "," "," "," "," "," "," "," "," "," "," "," "," "," ","<","/","d","i","v",">","\n",
      " "," "," "," "," "," "," "," "," "," "," "," "," "," "," "," ","<","/","d","i","v",">",
      "\n"," "," "," "," "," "," "," "," "," "," "," "," ","<","/","b","o","d","y",">","\n"," ",
      " "," "," "," "," "," "," "," "," "," "," ","<","/","h","t","m","l",">","\n"," "," "," ",
      " "," "," "," "," "," "," "," "," ">>

\* templates["meeting"]["html"] (from line 151)
meeting_html ==
    <<"\n"," "," "," "," "," "," "," "," "," "," "," "," ","<","!","D","O","C","T","Y","P","E",
      " ","h","t","m","l",">","\n"," "," "," "," "," "," "," "," "," "," "," "," ","<","h","t",
      "m","l",">","\n"," "," "," "," "," "," "," "," "," "," "," "," ","<","h","e","a","d",">",
      "\n"," "," "," "," "," "," "," "," "," "," "," "," "," "," "," "," ","<","s","t","y","l",
      "e",">","\n"," "," "," "," "," "," "," "," "," "," "," "," "," "," "," "," "," "," "," ",
      " ","b","o","d","y"," ","{"," ","f","o","n","t","-","f","a","m","i","l","y",":"," ","'",
      "C","a","l","i","b","r","i","'",","," ","s","a","n","s","-","s","e","r","i","f",";"," ",
      "l","i","n","e","-","h","e","i","g","h","t",":"," ","1",".","5",";"," ","c","o","l","o",
      "r",":"," ","#","2","c","3","e","5","0",";"," ","}","\n"," "," "," "," "," "," "," "," ",
      " "," "," "," "," "," "," "," "," "," "," "," ",".","c","o","n","t","a","i","n","e","r",
      " ","{"," ","m","a","x","-","w","i","d","t","h",":"," ","6","0","0","p","x",";"," ","m",
      "a","r","g","i","n",":"," ","0"," ","a","u","t","o",";"," ","p","a","d","d","i","n","g",
      ":"," ","2","0","p","x",";"," ","}","\n"," "," "," "," "," "," "," "," "," "," "," "," ",
      " "," "," "," "," "," "," "," ",".","c","a","l","e","n","d","a","r","-","b","o","x"," ",
      "{"," ","b","a","c","k","g","r","o","u","n","d",":"," ","#","e","c","f","0","f","1",";",
      " ","p","a","d","d","i","n","g",":"," ","2","0","p","x",";"," ","b","o","r","d","e","r",
      "-","l","e","f","t",":"," ","4","p","x"," ","s","o","l","i","d"," ","#","3","4","9","8",
      "d","b",";"," ","m","a","r","g","i","n",":"," ","2","0","p","x"," ","0",";"," ","}","\n",
      " "," "," "," "," "," "," "," "," "," "," "," "," "," "," "," "," "," "," "," ",".","d",
      "e","t","a","i","l","s"," ","{"," ","b","a","c","k","g","r","o","u","n","d",":"," ","#",
      "f","f","f",";"," ","p","a","d","d","i","n","g",":"," ","2","0","p","x",";"," ","b","o",
      "r","d","e","r",":"," ","1","p","x"," ","s","o","l","i","d"," ","#","b","d","c","3","c",
      "7",";"," ","m","a","r","g","i","n","-","t","o","p",":"," ","2","0","p","x",";"," ","}",
      "\n"," "," "," "," "," "," "," "," "," "," "," "," "," "," "," "," "," "," "," "," ",".",
      "b","u","t","t","o","n"," ","{"," ","b","a","c","k","g","r","o","u","n","d",":"," ","#",
      "3","4","9","8","d","b",";"," ","c","o","l","o","r",":"," ","w","h","i","t","e",";"," ",
      "p","a","d","d","i","n","g",":"," ","1","0","p","x"," ","2","0","p","x",";"," ","t","e",
      "x","t","-","d","e","c","o","r","a","t","i","o","n",":"," ","n","o","n","e",";"," ","b",
      "o","r","d","e","r","-","r","a","d","i","u","s",":"," ","5","p","x",";"," ","}","\n"," ",
      " "," "," "," "," "," "," "," "," "," "," "," "," "," "," ","<","/","s","t","y","l","e",
      ">","\n"," "," "," "," "," "," "," "," "," "," "," "," ","<","/","h","e","a","d",">","\n",
      " "," "," "," "," "," "," "," "," "," "," "," ","<","b","o","d","y",">","\n"," "," "," ",
      " "," "," "," "," "," "," "," "," "," "," "," "," ","<","d","i","v"," ","c","l","a","s",
      "s","=","\"","c","o","n","t","a","i","n","e","r","\"",">","\n"," "," "," "," "," "," ",
      " "," "," "," "," "," "," "," "," "," "," "," "," "," ","<","h","2",">","{","h","e","a",
      "d","e","r","}","<","/","h","2",">","\n"," "," "," "," "," "," "," "," "," "," "," "," ",
      " "," "," "," "," "," "," "," ","<","d","i","v"," ","c","l","a","s","s","=","\"","c","a",
      "l","e","n","d","a","r","-","b","o","x","\"",">","\n"," "," "," "," "," "," "," "," "," ",
      " "," "," "," "," "," "," "," "," "," "," "," "," "," "," ","{","c","o","n","t","e","n",
      "t","}","\n"," "," "," "," "," "," "," "," "," "," "," "," "," "," "," "," "," "," "," ",
      " ","<","/","d","i","v",">","\n"," "," "," "," "," "," "," "," "," "," "," "," "," "," ",
      " "," "," "," "," "," ","<","d","i","v"," ","c","l","a","s","s","=","\"","d","e","t","a",
      "i","l","s","\"",">","\n"," "," "," "," "," "," "," "," "," "," "," "," "," "," "," "," ",
      " "," "," "," "," "," "," "," ","{","f","o","o","t","e","r","}","\n"," "," "," "," "," ",
      " "," "," "," "," "," "," "," "," "," "," "," "," "," "," ","<","/","d","i","v",">","\n",
      " "," "," "," "," "," "," "," "," "," "," "," "," "," "," "," ","<","/","d","i","v",">",
      "\n"," "," "," "," "," "," "," "," "," "," "," "," ","<","/","b","o","d","y",">","\n"," ",
      " "," "," "," "," "," "," "," "," "," "," ","<","/","h","t","m","l",">","\n"," "," "," ",
      " "," "," "," "," "," "," "," "," ">>

\* templates["thank_you"]["html"] (from line 179)
thank_you_html ==
    <<"\n"," "," "," "," "," "," "," "," "," "," "," "," ","<","!","D","O","C","T","Y","P","E",
      " ","h","t","m","l",">","\n"," "," "," "," "," "," "," "," "," "," "," "," ","<","h","t",
      "m","l",">","\n"," "," "," "," "," "," "," "," "," "," "," "," ","<","h","e","a","d",">",
      "\n"," "," "," "," "," "," "," "," "," "," "," "," "," "," "," "," ","<","s","t","y","l",
      "e",">","\n"," "," "," "," "," "," "," "," "," "," "," "," "," "," "," "," "," "," "," ",
      " ","b","o","d","y"," ","{"," ","f","o","n","t","-","f","a","m","i","l","y",":"," ","'",
      "G","e","o","r","g","i","a","'",","," ","s","e","r","i","f",";"," ","l","i","n","e","-",
      "h","e","i","g","h","t",":"," ","1",".","8",";"," ","c","o","l","o","r",":"," ","#","2",
      "c","3","e","5","0",";"," ","}","\n"," "," "," "," "," "," "," "," "," "," "," "," "," ",
      " "," "," "," "," "," "," ",".","c","o","n","t","a","i","n","e","r"," ","{"," ","m","a",
      "x","-","w","i","d","t","h",":"," ","6","0","0","p","x",";"," ","m","a","r","g","i","n",
      ":"," ","0"," ","a","u","t","o",";"," ","p","a","d","d","i","n","g",":"," ","3","0","p",
      "x",";"," ","}","\n"," "," "," "," "," "," "," "," "," "," "," "," "," "," "," "," "," ",
      " "," "," ",".","m","e","s","s","a","g","e"," ","{"," ","t","e","x","t","-","a","l","i",
      "g","n",":"," ","c","e","n","t","e","r",";"," ","p","a","d","d","i","n","g",":"," ","4",
      "0","p","x"," ","2","0","p","x",";"," ","}","\n"," "," "," "," "," "," "," "," "," "," ",
      " "," "," "," "," "," "," "," "," "," ",".","s","i","g","n","a","t","u","r","e"," ","{",
      " ","m","a","r","g","i","n","-","t","o","p",":"," ","4","0","p","x",";"," ","f","o","n",
      "t","-","s","t","y","l","e",":"," ","i","t","a","l","i","c",";"," ","}","\n"," "," "," ",
      " "," "," "," "," "," "," "," "," "," "," "," "," "," "," "," "," ","h","1"," ","{"," ",
      "c","o","l","o","r",":"," ","#","e","7","4","c","3","c",";"," ","}","\n"," "," "," "," ",
      " "," "," "," "," "," "," "," "," "," "," "," ","<","/","s","t","y","l","e",">","\n"," ",
      " "," "," "," "," "," "," "," "," "," "," ","<","/","h","e","a","d",">","\n"," "," "," ",
      " "," "," "," "," "," "," "," "," ","<","b","o","d","y",">","\n"," "," "," "," "," "," ",
      " "," "," "," "," "," "," "," "," "," ","<","d","i","v"," ","c","l","a","s","s","=","\"",
      "c","o","n","t","a","i","n","e","r","\"",">","\n"," "," "," "," "," "," "," "," "," "," ",
      " "," "," "," "," "," "," "," "," "," ","<","d","i","v"," ","c","l","a","s","s","=","\"",
      "m","e","s","s","a","g","e","\"",">","\n"," "," "," "," "," "," "," "," "," "," "," "," ",
      " "," "," "," "," "," "," "," "," "," "," "," ","<","h","1",">","{","h","e","a","d","e",
      "r","}","<","/","h","1",">","\n"," "," "," "," "," "," "," "," "," "," "," "," "," "," ",
      " "," "," "," "," "," "," "," "," "," ","<","d","i","v"," ","c","l","a","s","s","=","\"",
      "c","o","n","t","e","n","t","\"",">","\n"," "," "," "," "," "," "," "," "," "," "," "," ",
      " "," "," "," "," "," "," "," "," "," "," "," "," "," "," "," ","{","c","o","n","t","e",
      "n","t","}","\n"," "," "," "," "," "," "," "," "," "," "," "," "," "," "," "," "," "," ",
      " "," "," "," "," "," ","<","/","d","i","v",">","\n"," "," "," "," "," "," "," "," "," ",
      " "," "," "," "," "," "," "," "," "," "," "," "," "," "," ","<","d","i","v"," ","c","l",
      "a","s","s","=","\"","s","i","g","n","a","t","u","r","e","\"",">","\n"," "," "," "," ",
      " "," "," "," "," "," "," "," "," "," "," "," "," "," "," "," "," "," "," "," "," "," ",
      " "," ","{","f","o","o","t","e","r","}","\n"," "," "," "," "," "," "," "," "," "," "," ",
      " "," "," "," "," "," "," "," "," "," "," "," "," ","<","/","d","i","v",">","\n"," "," ",
      " "," "," "," "," "," "," "," "," "," "," "," "," "," "," "," "," "," ","<","/","d","i",
      "v",">","\n"," "," "," "," "," "," "," "," "," "," "," "," "," "," "," "," ","<","/","d",
      "i","v",">","\n"," "," "," "," "," "," "," "," "," "," "," "," ","<","/","b","o","d","y",
      ">","\n"," "," "," "," "," "," "," "," "," "," "," "," ","<","/","h","t","m","l",">","\n",
      " "," "," "," "," "," "," "," "," "," "," "," ">>

\* templates["default"]["html"] (from line 209)
default_html ==
    <<"\n"," "," "," "," "," "," "," "," "," "," "," "," ","<","!","D","O","C","T","Y","P","E",
      " ","h","t","m","l",">","\n"," "," "," "," "," "," "," "," "," "," "," "," ","<","h","t",
      "m","l",">","\n"," "," "," "," "," "," "," "," "," "," "," "," ","<","h","e","a","d",">",
      "\n"," "," "," "," "," "," "," "," "," "," "," "," "," "," "," "," ","<","s","t","y","l",
      "e",">","\n"," "," "," "," "," "," "," "," "," "," "," "," "," "," "," "," "," "," "," ",
      " ","b","o","d","y"," ","{"," ","f","o","n","t","-","f","a","m","i","l","y",":"," ","A",
      "r","i","a","l",","," ","s","a","n","s","-","s","e","r","i","f",";"," ","l","i","n","e",
      "-","h","e","i","g","h","t",":"," ","1",".","6",";"," ","c","o","l","o","r",":"," ","#",
      "3","3","3",";"," ","}","\n"," "," "," "," "," "," "," "," "," "," "," "," "," "," "," ",
      " "," "," "," "," ",".","e","m","a","i","l","-","c","o","n","t","a","i","n","e","r"," ",
      "{"," ","m","a","x","-","w","i","d","t","h",":"," ","6","0","0","p","x",";"," ","m","a",
      "r","g","i","n",":"," ","0"," ","a","u","t","o",";"," ","p","a","d","d","i","n","g",":",
      " ","2","0","p","x",";"," ","}","\n"," "," "," "," "," "," "," "," "," "," "," "," "," ",
      " "," "," "," "," "," "," ",".","e","m","a","i","l","-","h","e","a","d","e","r"," ","{",
      " ","m","a","r","g","i","n","-","b","o","t","t","o","m",":"," ","2","0","p","x",";"," ",
      "}","\n"," "," "," "," "," "," "," "," "," "," "," "," "," "," "," "," "," "," "," "," ",
      ".","e","m","a","i","l","-","c","o","n","t","e","n","t"," ","{"," ","b","a","c","k","g",
      "r","o","u","n","d",":"," ","#","f","f","f",";"," ","p","a","d","d","i","n","g",":"," ",
      "2","0","p","x",";"," ","b","o","r","d","e","r","-","r","a","d","i","u","s",":"," ","5",
      "p","x",";"," ","}","\n"," "," "," "," "," "," "," "," "," "," "," "," "," "," "," "," ",
      " "," "," "," ",".","e","m","a","i","l","-","f","o","o","t","e","r"," ","{"," ","m","a",
      "r","g","i","n","-","t","o","p",":"," ","2","0","p","x",";"," ","f","o","n","t","-","s",
      "i","z","e",":"," ","1","2","p","x",";"," ","c","o","l","o","r",":"," ","#","6","6","6",
      ";"," ","}","\n"," "," "," "," "," "," "," "," "," "," "," "," "," "," "," "," ","<","/",
      "s","t","y","l","e",">","\n"," "," "," "," "," "," "," "," "," "," "," "," ","<","/","h",
      "e","a","d",">","\n"," "," "," "," "," "," "," "," "," "," "," "," ","<","b","o","d","y",
      ">","\n"," "," "," "," "," "," "," "," "," "," "," "," "," "," "," "," ","<","d","i","v",
      " ","c","l","a","s","s","=","\"","e","m","a","i","l","-","c","o","n","t","a","i","n","e",
      "r","\"",">","\n"," "," "," "," "," "," "," "," "," "," "," "," "," "," "," "," "," "," ",
      " "," ","<","d","i","v"," ","c","l","a","s","s","=","\"","e","m","a","i","l","-","h","e",
      "a","d","e","r","\"",">","\n"," "," "," "," "," "," "," "," "," "," "," "," "," "," "," ",
      " "," "," "," "," "," "," "," "," ","{","h","e","a","d","e","r","}","\n"," "," "," "," ",
      " "," "," "," "," "," "," "," "," "," "," "," "," "," "," "," ","<","/","d","i","v",">",
      "\n"," "," "," "," "," "," "," "," "," "," "," "," "," "," "," "," "," "," "," "," ","<",
      "d","i","v"," ","c","l","a","s","s","=","\"","e","m","a","i","l","-","c","o","n","t","e",
      "n","t","\"",">","\n"," "," "," "," "," "," "," "," "," "," "," "," "," "," "," "," "," ",
      " "," "," "," "," "," "," ","{","c","o","n","t","e","n","t","}","\n"," "," "," "," "," ",
      " "," "," "," "," "," "," "," "," "," "," "," "," "," "," ","<","/","d","i","v",">","\n",
      " "," "," "," "," "," "," "," "," "," "," "," "," "," "," "," "," "," "," "," ","<","d",
      "i","v"," ","c","l","a","s","s","=","\"","e","m","a","i","l","-","f","o","o","t","e","r",
      "\"",">","\n"," "," "," "," "," "," "," "," "," "," "," "," "," "," "," "," "," "," "," ",
      " "," "," "," "," ","{","f","o","o","t","e","r","}","\n"," "," "," "," "," "," "," "," ",
      " "," "," "," "," "," "," "," "," "," "," "," ","<","/","d","i","v",">","\n"," "," "," ",
      " "," "," "," "," "," "," "," "," "," "," "," "," ","<","/","d","i","v",">","\n"," "," ",
      " "," "," "," "," "," "," "," "," "," ","<","/","b","o","d","y",">","\n"," "," "," "," ",
      " "," "," "," "," "," "," "," ","<","/","h","t","m","l",">","\n"," "," "," "," "," "," ",
      " "," "," "," "," "," ">>

\* templates["formal"]["html"] (from line 239)
formal_html ==
    <<"\n"," "," "," "," "," "," "," "," "," "," "," "," ","<","!","D","O","C","T","Y","P","E",
      " ","h","t","m","l",">","\n"," "," "," "," "," "," "," "," "," "," "," "," ","<","h","t",
      "m","l",">","\n"," "," "," "," "," "," "," "," "," "," "," "," ","<","h","e","a","d",">",
      "\n"," "," "," "," "," "," "," "," "," "," "," "," "," "," "," "," ","<","s","t","y","l",
      "e",">","\n"," "," "," "," "," "," "," "," "," "," "," "," "," "," "," "," "," "," "," ",
      " ","b","o","d","y"," ","{"," ","f","o","n","t","-","f","a","m","i","l","y",":"," ","'",
      "T","i","m","e","s"," ","N","e","w"," ","R","o","m","a","n","'",","," ","s","e","r","i",
      "f",";"," ","l","i","n","e","-","h","e","i","g","h","t",":"," ","1",".","8",";"," ","c",
      "o","l","o","r",":"," ","#","1","a","1","a","1","a",";"," ","}","\n"," "," "," "," "," ",
      " "," "," "," "," "," "," "," "," "," "," "," "," "," "," ",".","e","m","a","i","l","-",
      "c","o","n","t","a","i","n","e","r"," ","{"," ","m","a","x","-","w","i","d","t","h",":",
      " ","6","0","0","p","x",";"," ","m","a","r","g","i","n",":"," ","0"," ","a","u","t","o",
      ";"," ","p","a","d","d","i","n","g",":"," ","3","0","p","x",";"," ","}","\n"," "," "," ",
      " "," "," "," "," "," "," "," "," "," "," "," "," "," "," "," "," ",".","e","m","a","i",
      "l","-","h","e","a","d","e","r"," ","{"," ","b","o","r","d","e","r","-","b","o","t","t",
      "o","m",":"," ","2","p","x"," ","s","o","l","i","d"," ","#","1","a","1","a","1","a",";",
      " ","p","a","d","d","i","n","g","-","b","o","t","t","o","m",":"," ","2","0","p","x",";",
      " ","m","a","r","g","i","n","-","b","o","t","t","o","m",":"," ","3","0","p","x",";"," ",
      "}","\n"," "," "," "," "," "," "," "," "," "," "," "," "," "," "," "," "," "," "," "," ",
      ".","e","m","a","i","l","-","c","o","n","t","e","n","t"," ","{"," ","t","e","x","t","-",
      "a","l","i","g","n",":"," ","j","u","s","t","i","f","y",";"," ","}","\n"," "," "," "," ",
      " "," "," "," "," "," "," "," "," "," "," "," "," "," "," "," ",".","s","i","g","n","a",
      "t","u","r","e"," ","{"," ","m","a","r","g","i","n","-","t","o","p",":"," ","4","0","p",
      "x",";"," ","}","\n"," "," "," "," "," "," "," "," "," "," "," "," "," "," "," "," ","<",
      "/","s","t","y","l","e",">","\n"," "," "," "," "," "," "," "," "," "," "," "," ","<","/",
      "h","e","a","d",">","\n"," "," "," "," "," "," "," "," "," "," "," "," ","<","b","o","d",
      "y",">","\n"," "," "," "," "," "," "," "," "," "," "," "," "," "," "," "," ","<","d","i",
      "v"," ","c","l","a","s","s","=","\"","e","m","a","i","l","-","c","o","n","t","a","i","n",
      "e","r","\"",">","\n"," "," "," "," "," "," "," "," "," "," "," "," "," "," "," "," "," ",
      " "," "," ","<","d","i","v"," ","c","l","a","s","s","=","\"","e","m","a","i","l","-","h",
      "e","a","d","e","r","\"",">","\n"," "," "," "," "," "," "," "," "," "," "," "," "," "," ",
      " "," "," "," "," "," "," "," "," "," ","{","h","e","a","d","e","r","}","\n"," "," "," ",
      " "," "," "," "," "," "," "," "," "," "," "," "," "," "," "," "," ","<","/","d","i","v",
      ">","\n"," "," "," "," "," "," "," "," "," "," "," "," "," "," "," "," "," "," "," "," ",
      "<","d","i","v"," ","c","l","a","s","s","=","\"","e","m","a","i","l","-","c","o","n","t",
      "e","n","t","\"",">","\n"," "," "," "," "," "," "," "," "," "," "," "," "," "," "," "," ",
      " "," "," "," "," "," "," "," ","{","c","o","n","t","e","n","t","}","\n"," "," "," "," ",
      " "," "," "," "," "," "," "," "," "," "," "," "," "," "," "," ","<","/","d","i","v",">",
      "\n"," "," "," "," "," "," "," "," "," "," "," "," "," "," "," "," "," "," "," "," ","<",
      "d","i","v"," ","c","l","a","s","s","=","\"","s","i","g","n","a","t","u","r","e","\"",">",
      "\n"," "," "," "," "," "," "," "," "," "," "," "," "," "," "," "," "," "," "," "," "," ",
      " "," "," ","{","f","o","o","t","e","r","}","\n"," "," "," "," "," "," "," "," "," "," ",
      " "," "," "," "," "," "," "," "," "," ","<","/","d","i","v",">","\n"," "," "," "," "," ",
      " "," "," "," "," "," "," "," "," "," "," ","<","/","d","i","v",">","\n"," "," "," "," ",
      " "," "," "," "," "," "," "," ","<","/","b","o","d","y",">","\n"," "," "," "," "," "," ",
      " "," "," "," "," "," ","<","/","h","t","m","l",">","\n"," "," "," "," "," "," "," "," ",
      " "," "," "," ">>

\* the "plain" text, the same in the five templates
plain_template ==
    <<"{","h","e","a","d","e","r","}","\n","\n","{","c","o","n","t","e","n","t","}","\n","\n",
      "{","f","o","o","t","e","r","}">>

templates ==
    [ newsletter |-> [html |-> newsletter_html, plain |-> plain_template],
      meeting |-> [html |-> meeting_html, plain |-> plain_template],
      thank_you |-> [html |-> thank_you_html, plain |-> plain_template],
      default |-> [html |-> default_html, plain |-> plain_template],
      formal |-> [html |-> formal_html, plain |-> plain_template] ]

\* templates.get(template_name, templates["default"])
get_email_template(template_name) ==
    IF template_name \in DOMAIN templates THEN templates[template_name]
    ELSE templates["default"]

----------------------------------------------------------------------------
(* app.py: str.format, convert_to_html and send_email *)

Min(S) == CHOOSE i \in S : \A j \in S : i <= j

\* the end of the replacement field opened at i: the first } that closes it
field_end(s, i) ==
    LET opens == {k \in (i + 1)..Len(s) : s[k] = "{"}
        closes == {k \in (i + 1)..Len(s) : s[k] = "}"}
        ends == {j \in closes :
                    Cardinality({k \in closes : k <= j})
                       = Cardinality({k \in opens : k < j}) + 1}
    IN IF ends = {} THEN 0 ELSE Min(ends)

\* the name of a replacement field: its text before the first ! or :
field_name(field) ==
    LET stops == {k \in 1..Len(field) : field[k] \in {"!", ":"}}
    IN IF stops = {} THEN field ELSE SubSeq(field, 1, Min(stops) - 1)

SingleClose == <<"S","i","n","g","l","e"," ","'">> \o << "}" >> \o <<"'"," ","e","n","c","o","u","n","t","e","r","e","d"," ","i","n"," ","f","o","r","m","a",
      "t"," ","s","t","r","i","n","g">>

SingleOpen == <<"S","i","n","g","l","e"," ","'">> \o << "{" >> \o <<"'"," ","e","n","c","o","u","n","t","e","r","e","d"," ","i","n"," ","f","o","r","m","a",
      "t"," ","s","t","r","i","n","g">>

ExpectedClose == <<"e","x","p","e","c","t","e","d"," ","'">> \o << "}" >> \o <<"'"," ","b","e","f","o","r","e"," ","e","n","d"," ","o","f"," ","s","t","r","i","n","g">>

\* the first brace at or after position start, 0 when there is none
first_brace(s, start) ==
    IF \E i \in start..Len(s) : s[i] \in {"{", "}"}
    THEN Min({i \in start..Len(s) : s[i] \in {"{", "}"}})
    ELSE 0

\* the formatted text so far followed by what the rest of the format string
\* gives
formatted(text, rest) == [error |-> rest.error, value |-> text \o rest.value]

format_raises(error) == [error |-> error, value |-> <<>>]

\* format_string.format(**kwargs) from position start on: the literal text
\* is copied, {{ and }} stand for one brace, and a replacement field is
\* looked up by its name in kwargs, where a missing name raises KeyError.
\* The fields of the templates that name a keyword carry no conversion and
\* no format specification, and none is applied here.
RECURSIVE str_format_from(_, _, _)
format_replacement(s, start, kwargs, i, close, name) ==
    IF close = 0 THEN format_raises(Error("ValueError", ExpectedClose))
    ELSE IF ~has_key(kwargs, name) THEN format_raises(KeyError(name))
    ELSE formatted(SubSeq(s, start, i - 1) \o kwargs[name],
                   str_format_from(s, close + 1, kwargs))

format_markup(s, start, kwargs, i) ==
    IF i = 0 THEN [error |-> NoneValue, value |-> SubSeq(s, start, Len(s))]
    ELSE IF i < Len(s) /\ s[i + 1] = s[i]
    THEN formatted(SubSeq(s, start, i), str_format_from(s, i + 2, kwargs))
    ELSE IF s[i] = "}" THEN format_raises(Error("ValueError", SingleClose))
    ELSE IF i = Len(s) THEN format_raises(Error("ValueError", SingleOpen))
    ELSE format_replacement(s, start, kwargs, i, field_end(s, i),
                      field_name(SubSeq(s, i + 1, field_end(s, i) - 1)))

str_format_from(s, start, kwargs) == format_markup(s, start, kwargs, first_brace(s, start))

str_format(s, kwargs) == str_format_from(s, 1, kwargs)

\* text.replace(old, new) for a one-character old
replace_char(text, old, new) ==
    Flatten([i \in 1..Len(text) |-> IF text[i] = old THEN new ELSE << text[i] >>])

\* s[i:].startswith(prefix), i counted from 1
starts_at(s, i, prefix) ==
    /\ i + Len(prefix) - 1 <= Len(s)
    /\ \A j \in 1..Len(prefix) : s[i + j - 1] = prefix[j]

\* the length of the match of https?://\S+ at position i, 0 when there is
\* none: the scheme and then every character up to the next white space
url_match(s, i) ==
    LET scheme == IF starts_at(s, i, <<"h","t","t","p",":","/","/">>) THEN 7
                  ELSE IF starts_at(s, i, <<"h","t","t","p","s",":","/","/">>) THEN 8 ELSE 0
        spaces == {k \in (i + scheme)..Len(s) : is_space(s[k])}
        stop == IF spaces = {} THEN Len(s) + 1 ELSE Min(spaces)
    IN IF scheme = 0 \/ stop = i + scheme THEN 0 ELSE stop - i

\* re.sub(r'(https?://\S+)', r'<a href="\1">\1</a>', text) from position i on
RECURSIVE sub_urls(_, _)
sub_urls(s, i) ==
    IF i > Len(s) THEN <<>>
    ELSE IF url_match(s, i) = 0 THEN << s[i] >> \o sub_urls(s, i + 1)
    ELSE LET url == SubSeq(s, i, i + url_match(s, i) - 1)
         IN <<"<","a"," ","h","r","e","f","=","\"">> \o url \o <<"\"",">">> \o url \o <<"<","/","a",">">>
               \o sub_urls(s, i + url_match(s, i))

\* text.split(sep) for a non-empty sep
RECURSIVE split_on(_, _)
split_on(s, sep) ==
    LET found == {i \in 1..Len(s) : starts_at(s, i, sep)}
    IN IF found = {} THEN << s >>
       ELSE << SubSeq(s, 1, Min(found) - 1) >>
               \o split_on(SubSeq(s, Min(found) + Len(sep), Len(s)), sep)

\* convert_to_html: line feeds become <br>, URLs become links and the text
\* between two double breaks becomes a paragraph
convert_to_html(text) ==
    LET paragraphs == split_on(sub_urls(replace_char(text, "\n", <<"<","b","r",">">>), 1), <<"<","b","r",">","<","b","r",">">>)
    IN Flatten([k \in 1..Len(paragraphs) |-> <<"<","p",">">> \o paragraphs[k] \o <<"<","/","p",">">>])

LocalChars == UpperSet \cup LowerSet \cup RangeOf(Digits) \cup {".", "_", "%", "+", "-"}

DomainChars == UpperSet \cup LowerSet \cup RangeOf(Digits) \cup {".", "-"}

\* is_valid_email accepting every address that holds an @
is_valid_email_any_at_mut(email) == \E at \in 1..Len(email) : email[at] = "@"

\* is_valid_email: re.match of
\* ^[a-zA-Z0-9._%+-]+@[a-zA-Z0-9.-]+\.[a-zA-Z]{2,}$ , where $ also matches
\* before a line feed that ends the text
is_valid_email(email) ==
    \E end \in {Len(email), Len(email) - 1} :
       /\ end >= 0
       /\ end = Len(email) - 1 => email[Len(email)] = "\n"
       /\ \E at \in 2..end, dot \in 3..end :
             /\ email[at] = "@"
             /\ \A k \in 1..(at - 1) : email[k] \in LocalChars
             /\ at + 1 < dot
             /\ \A k \in (at + 1)..(dot - 1) : email[k] \in DomainChars
             /\ email[dot] = "."
             /\ end - dot >= 2
             /\ \A k \in (dot + 1)..end : email[k] \in UpperSet \cup LowerSet

\* st.secrets without the SMTP settings, and with them
NoSecrets == [SMTP_HOST |-> NoneValue, SMTP_PORT |-> NoNumber]

SmtpPort == 587

\* providers.get(provider, providers["gmail"]): the (host, port) pair
smtp_server(provider, secrets) ==
    IF provider = "outlook" THEN << <<"s","m","t","p","-","m","a","i","l",".","o","u","t","l","o","o","k",".","c","o","m">>, Number(SmtpPort) >>
    ELSE IF provider = "yahoo" THEN << <<"s","m","t","p",".","m","a","i","l",".","y","a","h","o","o",".","c","o","m">>, Number(SmtpPort) >>
    ELSE IF provider = "custom"
    THEN << IF secrets.SMTP_HOST.is_none THEN <<>> ELSE secrets.SMTP_HOST.str,
            IF secrets.SMTP_PORT = NoNumber THEN Number(SmtpPort) ELSE secrets.SMTP_PORT >>
    ELSE << <<"s","m","t","p",".","g","m","a","i","l",".","c","o","m">>, Number(SmtpPort) >>

\* what the mail server and the attachments do to one call: nothing fails,
\* or the named step raises the error
SendSucceeds == [fails |-> "none", error |-> NoneValue]

SendFails(step, error) == [fails |-> step, error |-> error]

\* the steps of the SMTP session, in the order of lines 348-352
SmtpSteps == << "connect", "starttls", "login", "sendmail" >>

EmailSent == <<"E","m","a","i","l"," ","s","e","n","t"," ","s","u","c","c","e","s","s","f","u","l","l",
      "y","!">>

FailedToSend == <<"F","a","i","l","e","d"," ","t","o"," ","s","e","n","d"," ","e","m","a","i","l",":"," ">>

\* the keyword arguments of the two template["..."].format calls
plain_kwargs(sender_email, subject, body) ==
    [name \in {<<"h","e","a","d","e","r">>, <<"c","o","n","t","e","n","t">>, <<"f","o","o","t","e","r">>} |->
        IF name = <<"h","e","a","d","e","r">> THEN <<"S","u","b","j","e","c","t",":"," ">> \o subject
        ELSE IF name = <<"c","o","n","t","e","n","t">> THEN body
        ELSE <<"S","e","n","t"," ","b","y"," ">> \o sender_email]

html_kwargs(sender_email, subject, body) ==
    [name \in {<<"h","e","a","d","e","r">>, <<"c","o","n","t","e","n","t">>, <<"f","o","o","t","e","r">>} |->
        IF name = <<"h","e","a","d","e","r">> THEN <<"<","h","2",">">> \o subject \o <<"<","/","h","2",">">>
        ELSE IF name = <<"c","o","n","t","e","n","t">> THEN convert_to_html(body)
        ELSE <<"<","e","m",">","S","e","n","t"," ","b","y"," ">> \o sender_email \o <<"<","/","e","m",">">>]

\* the steps of the SMTP session completed when the named step fails
completed_steps(fails) ==
    IF fails \in RangeOf(SmtpSteps) THEN SubSeq(SmtpSteps, 1, index_of(fails, SmtpSteps) - 1)
    ELSE SmtpSteps

\* the try block of send_email after the plain text was rendered
send_email_rendered(args, outcome, text_content, html_content) ==
    IF text_content.error # NoneValue
    THEN [text_content |-> NoneValue, html_content |-> NoneValue,
          error |-> text_content.error, server |-> <<>>, smtp |-> <<>>]
    ELSE IF html_content.error # NoneValue
    THEN [text_content |-> Some(text_content.value), html_content |-> NoneValue,
          error |-> html_content.error, server |-> <<>>, smtp |-> <<>>]
    ELSE IF outcome.fails = "attach" /\ args.attachments # <<>>
    THEN [text_content |-> Some(text_content.value),
          html_content |-> Some(html_content.value),
          error |-> outcome.error, server |-> <<>>, smtp |-> <<>>]
    ELSE [text_content |-> Some(text_content.value),
          html_content |-> Some(html_content.value),
          error |-> IF outcome.fails \in RangeOf(SmtpSteps) THEN outcome.error
                    ELSE NoneValue,
          server |-> smtp_server(args.provider, args.secrets),
          smtp |-> completed_steps(outcome.fails)]

\* the body of the try block of send_email: the two rendered texts, the
\* exception that ended it (None when it ran to its end) and the steps of
\* the SMTP session that were completed
send_email_try(args, outcome) ==
    send_email_rendered(args, outcome,
        str_format(get_email_template(args.template).plain,
                   plain_kwargs(args.sender_email, args.subject, args.body)),
        str_format(get_email_template(args.template).html,
                   html_kwargs(args.sender_email, args.subject, args.body)))

\* the two return statements answering a failure without the text of its
\* cause
send_email_returns_no_cause_mut(run) ==
    IF run.error = NoneValue THEN << TRUE, EmailSent >>
    ELSE << FALSE, <<"F","a","i","l","e","d"," ","t","o"," ","s","e","n","d"," ","e","m","a","i","l">> >>

\* lines 354-356: the two return statements of send_email
send_email_returns(run) ==
    IF run.error = NoneValue THEN << TRUE, EmailSent >>
    ELSE << FALSE, FailedToSend \o run.error.message >>

\* send_email: the (success, message) pair it returns
send_email(args, outcome) == send_email_returns(send_email_try(args, outcome))

----------------------------------------------------------------------------
(* app.py lines 956-995: the Send Email button *)

\* if total_size > 25 * 1024 * 1024
MaxTotalSize == 25 * 1024 * 1024

PasswordMissing ==
    <<"U+274C"," ","S","M","T","P"," ","P","a","s","s","w","o","r","d"," ","n","o","t"," ","c",
      "o","n","f","i","g","u","r","e","d","."," ","P","l","e","a","s","e"," ","a","d","d"," ",
      "S","M","T","P","_","P","A","S","S","W","O","R","D"," ","t","o"," ","y","o","u","r"," ",
      ".","e","n","v"," ","f","i","l","e",".">>

InvalidSender == <<"U+274C"," ","I","n","v","a","l","i","d"," ","s","e","n","d","e","r"," ","e","m","a","i",
      "l"," ","a","d","d","r","e","s","s"," ","f","o","r","m","a","t",".">>

InvalidRecipient == <<"U+274C"," ","I","n","v","a","l","i","d"," ","r","e","c","i","p","i","e","n","t"," ","e",
      "m","a","i","l"," ","a","d","d","r","e","s","s"," ","f","o","r","m","a","t",".">>

CustomNotConfigured == <<"U+274C"," ","C","u","s","t","o","m"," ","S","M","T","P"," ","s","e","t","t","i","n","g",
      "s"," ","a","r","e"," ","n","o","t"," ","c","o","n","f","i","g","u","r","e","d",".">>

TotalTooLarge == <<"U+274C"," ","T","o","t","a","l"," ","a","t","t","a","c","h","m","e","n","t"," ","s","i",
      "z","e"," ","e","x","c","e","e","d","s"," ","2","5","M","B"," ","l","i","m","i","t">>

\* email_provider == "custom" and
\* not (st.secrets.get("SMTP_HOST") and st.secrets.get("SMTP_PORT"))
custom_not_configured(provider, secrets) ==
    /\ provider = "custom"
    /\ ~(truthy(secrets.SMTP_HOST) /\ truthy_number(secrets.SMTP_PORT))

\* the checks without the one of the recipient's address
send_refusal_sender_only_mut(fields, sets, files) ==
    IF ~truthy(sets.smtp_password) THEN Some(PasswordMissing)
    ELSE IF ~is_valid_email(fields.sender_email) THEN Some(InvalidSender)
    ELSE IF custom_not_configured(sets.email_provider, sets.secrets)
    THEN Some(CustomNotConfigured)
    ELSE IF total_size(files) > MaxTotalSize THEN Some(TotalTooLarge)
    ELSE NoneValue

\* the st.error of the first check that refuses to send, None when
\* send_email is called
send_refusal(fields, sets, files) ==
    IF ~truthy(sets.smtp_password) THEN Some(PasswordMissing)
    ELSE IF ~is_valid_email(fields.sender_email) THEN Some(InvalidSender)
    ELSE IF ~is_valid_email(fields.receiver_email) THEN Some(InvalidRecipient)
    ELSE IF custom_not_configured(sets.email_provider, sets.secrets)
    THEN Some(CustomNotConfigured)
    ELSE IF total_size(files) > MaxTotalSize THEN Some(TotalTooLarge)
    ELSE NoneValue

\* the script's variables success and message once a pair is assigned
Bound(pair) == [bound |-> TRUE, success |-> pair[1], message |-> pair[2]]

NameError(name) == Error("NameError", <<"n","a","m","e"," ","'">> \o name \o <<"'"," ","i","s"," ","n","o","t"," ","d","e","f","i","n","e","d">>)

\* st.error(text) and st.success(text)
st_error(text) == [kind |-> "error", text |-> text]

st_success(text) == [kind |-> "success", text |-> text]

\* the arguments of the call of send_email at lines 979-988
send_email_args(fields, sets, files, edited_email) ==
    [sender_email |-> fields.sender_email, receiver_email |-> fields.receiver_email,
     subject |-> fields.subject, body |-> edited_email,
     smtp_password |-> sets.smtp_password.str, provider |-> sets.email_provider,
     template |-> sets.email_template, attachments |-> files,
     secrets |-> sets.secrets]

\* one call of send_email and what it did
mail_of(args, outcome, run) ==
    [invoked |-> TRUE, args |-> args, outcome |-> outcome,
     text_content |-> run.text_content, html_content |-> run.html_content,
     error |-> run.error, server |-> run.server, smtp |-> run.smtp]

Mail(args, outcome) == mail_of(args, outcome, send_email_try(args, outcome))

\* lines 990-995 when they are reached: 'if success' reads the variable as
\* the script left it, which raises NameError when nothing was assigned
read_success(sets, first, after, new_mail) ==
    [mail |-> new_mail,
     result |-> after,
     error |-> IF after.bound THEN NoneValue ELSE NameError(<<"s","u","c","c","e","s","s">>),
     shown |-> IF ~after.bound THEN first
               ELSE IF after.success THEN Append(first, st_success(after.message))
               ELSE Append(first, st_error(after.message)),
     last_template |-> IF after.bound /\ after.success THEN << sets.email_template >>
                       ELSE sets.last_template]

\* the Send Email button once the checks said whether to send
send_button_checked(sets, assigned, refusal, args, outcome) ==
    IF refusal = NoneValue
    THEN read_success(sets, <<>>, Bound(send_email(args, outcome)), Mail(args, outcome))
    ELSE IF refusal = Some(TotalTooLarge)
    THEN read_success(sets, << st_error(refusal.str) >>, assigned, NoMail)
    ELSE [mail |-> NoMail, result |-> assigned, error |-> NoneValue,
          shown |-> << st_error(refusal.str) >>, last_template |-> sets.last_template]

\* the block under st.button("Send Email"): what it shows, the call of
\* send_email it makes, the variables success and message as it leaves them,
\* the template it saves and the exception it raises. 'if success' at line
\* 990 follows the check of the total size whether send_email was called or
\* not.
send_button(fields, sets, files, assigned, edited_email, outcome) ==
    send_button_checked(sets, assigned, send_refusal(fields, sets, files),
                        send_email_args(fields, sets, files, edited_email), outcome)

----------------------------------------------------------------------------
(* simple_app.py and app.py: the form submission handler *)

\* the k-th smallest element of a set of numbers
nth(S, k) == CHOOSE i \in S : Cardinality({j \in S : j < i}) = k - 1

\* s.split('\n'): the fields between the line feeds, empty ones included
split_lines(s) ==
    LET feeds == {i \in 1..Len(s) : s[i] = "\n"}
        cut(k) == IF k = 0 THEN 0
                  ELSE IF k > Cardinality(feeds) THEN Len(s) + 1
                  ELSE nth(feeds, k)
    IN [k \in 1..(Cardinality(feeds) + 1) |-> SubSeq(s, cut(k - 1) + 1, cut(k) - 1)]

\* simple_app.py lines 316-320:
\* [point.strip() for point in key_points_text.split('\n') if point.strip()]
simple_app_key_points(text) ==
    IF text # <<>>
    THEN LET points == split_lines(text)
             stripped == [k \in 1..Len(points) |-> strip(points[k])]
         IN SelectSeq(stripped, LAMBDA point : point # <<>>)
    ELSE <<>>

\* for point in key_points, key_points being a str: its characters
iterate_str(s) == [i \in 1..Len(s) |-> << s[i] >>]

\* app.py lines 912-918: the f-string email_context
app_email_context(sender_email, receiver_email, subject, ctx) ==
    <<"\n"," "," "," "," "," "," "," "," "," "," "," "," "," "," "," "," ","F","r","o","m",":",
      " ">> \o sender_email
    \o <<"\n"," "," "," "," "," "," "," "," "," "," "," "," "," "," "," "," ","T","o",":"," ">> \o receiver_email
    \o <<"\n"," "," "," "," "," "," "," "," "," "," "," "," "," "," "," "," ","S","u","b","j","e",
      "c","t",":"," ">> \o subject
    \o <<"\n"," "," "," "," "," "," "," "," "," "," "," "," "," "," "," "," ","\n"," "," "," "," ",
      " "," "," "," "," "," "," "," "," "," "," "," ","A","d","d","i","t","i","o","n","a","l",
      " ","C","o","n","t","e","x","t",":"," ">> \o ctx
    \o <<"\n"," "," "," "," "," "," "," "," "," "," "," "," "," "," "," "," ">>

\* simple_app.py line 406: if not key_points
simple_app_form_complete(points) == points # <<>>

\* app.py line 906:
\* if not sender_email or not receiver_email or not subject or not key_points
app_form_complete(fields, points) ==
    /\ fields.sender_email # <<>>
    /\ fields.receiver_email # <<>>
    /\ fields.subject # <<>>
    /\ points # <<>>

\* the handler evaluating whatever send_prompt returned
after_completion_no_response_check_mut(error, content) ==
    IF error # NoneValue THEN "error" ELSE "evaluating"

\* where the handler goes after groq_client.send_prompt: the except branch
\* when it raised, the evaluation under 'if response:', else the
\* 'Failed to generate email' branch
after_completion(error, content) ==
    IF error # NoneValue THEN "error"
    ELSE IF truthy(content) THEN "evaluating"
    ELSE "failed"

\* the first of the keys that the dict does not have, None when it has all
RECURSIVE first_missing_key(_, _)
first_missing_key(dict, keys) ==
    IF keys = <<>> THEN NoneValue
    ELSE IF ~has_key(dict, Head(keys)[1]) THEN KeyError(Head(keys)[2])
    ELSE first_missing_key(dict, Tail(keys))

\* simple_app.py lines 448-469: the keys the display reads
simple_app_display_error(evaluation, detailed_eval) ==
    IF first_missing_key(evaluation,
          << <<"all_key_points_included", <<"a","l","l","_","k","e","y","_","p","o","i","n","t","s","_","i","n","c","l","u","d","e",
      "d">>>>,
             <<"tone_is_polite", <<"t","o","n","e","_","i","s","_","p","o","l","i","t","e">>>> >>) # NoneValue
    THEN first_missing_key(evaluation,
          << <<"all_key_points_included", <<"a","l","l","_","k","e","y","_","p","o","i","n","t","s","_","i","n","c","l","u","d","e",
      "d">>>>,
             <<"tone_is_polite", <<"t","o","n","e","_","i","s","_","p","o","l","i","t","e">>>> >>)
    ELSE first_missing_key(detailed_eval,
          << <<"word_count", <<"w","o","r","d","_","c","o","u","n","t">>>>,
             <<"missing_points", <<"m","i","s","s","i","n","g","_","p","o","i","n","t","s">>>>,
             <<"suggestions", <<"s","u","g","g","e","s","t","i","o","n","s">>>> >>)

\* app.py lines 1001-1008: the keys the display reads
app_display_error(evaluation) ==
    first_missing_key(evaluation,
       << <<"all_points_covered", <<"a","l","l","_","p","o","i","n","t","s","_","c","o","v","e","r","e","d">>>>,
          <<"coverage_percentage", <<"c","o","v","e","r","a","g","e","_","p","e","r","c","e","n","t","a","g","e">>>>,
          <<"found_points", <<"f","o","u","n","d","_","p","o","i","n","t","s">>>>,
          <<"all_points", <<"a","l","l","_","p","o","i","n","t","s">>>> >>)

----------------------------------------------------------------------------
(* Inputs of the form *)

FormApps == {"simple_app", "app"}

FormKeyPointTexts == { <<>>, <<" ">>, <<"t","h","a","n","k"," ","y","o","u">>, <<"t","h","a","n","k"," ","y","o","u","\n","\n"," ","o","k"," ">> }

FormAddresses == { <<>>, <<"a","@","b",".","c","o">> }

FormSubjects == { <<>>, <<"V","i","s","i","t">> }

FormTones == { <<"f","o","r","m","a","l">>, <<"f","r","i","e","n","d","l","y">> }

FormContexts == { Some(<<>>), Some(<<"r","e">>) }

FormEmailTypes == { "custom", "thank_you" }

\* the slider: 0.0 and the preset 0.7
FormTemperatures == { Number(0), Number(DefaultTemperature) }

\* what the mail server does to one call of send_email
SendOutcomes ==
    { SendSucceeds,
      SendFails("attach", Error("UnicodeDecodeError",
                   <<"'","u","t","f","-","8","'"," ","c","o","d","e","c"," ","c","a","n","'","t"," ","d","e",
      "c","o","d","e"," ","b","y","t","e"," ","0","x","f","f"," ","i","n"," ","p","o","s","i",
      "t","i","o","n"," ","0",":"," ","i","n","v","a","l","i","d"," ","s","t","a","r","t"," ",
      "b","y","t","e">>)),
      SendFails("connect", Error("ConnectionRefusedError", <<"[","E","r","r","n","o"," ","1","1","1","]"," ","C","o","n","n","e","c","t","i","o","n",
      " ","r","e","f","u","s","e","d">>)),
      SendFails("starttls", Error("SMTPNotSupportedError",
                   <<"S","T","A","R","T","T","L","S"," ","e","x","t","e","n","s","i","o","n"," ","n","o","t",
      " ","s","u","p","p","o","r","t","e","d"," ","b","y"," ","s","e","r","v","e","r",".">>)),
      SendFails("login", Error("SMTPAuthenticationError", <<"(","5","3","5",","," ","b","'","B","a","d"," ","c","r","e","d","e","n","t","i","a","l",
      "s","'",")">>)),
      SendFails("sendmail", Error("SMTPRecipientsRefused", <<"r","e","c","i","p","i","e","n","t"," ","r","e","f","u","s","e","d">>)) }

\* the settings of an app that sends with the presets of the sidebar
FormSettings ==
    { [smtp_password |-> Some(<<"p","w">>), email_provider |-> "gmail",
       email_template |-> "default", secrets |-> NoSecrets,
       uploaded_file |-> NoFile, last_template |-> <<>>] }

\* the app has started, groq_client = GroqAPIClient() has returned, and the
\* form holds the given fields
FormStart(app, text, sender_email, receiver_email, subject, temperature, sets, files) ==
    /\ env = Some(<<"g","s","k","_","2">>)
    /\ client = GroqAPIClient_init(app, NoneValue, env)
    /\ key_points = IF app = "simple_app" THEN simple_app_key_points(text) ELSE text
    /\ form = [app |-> app, text |-> text,
               sender_email |-> sender_email,
               receiver_email |-> receiver_email,
               subject |-> subject, temperature |-> temperature,
               prompt |-> NoneValue]
    /\ reply = <<>>
    /\ ret = Unset
    /\ call = NoCall
    /\ requests = <<>>
    /\ pc = "idle"
    /\ log = <<>>
    /\ response = NoneValue
    /\ attachments = files
    /\ settings = sets
    /\ result = Unbound
    /\ mail = NoMail
    /\ shown = <<>>

InitForm ==
    /\ \E app \in FormApps, text \in FormKeyPointTexts,
          sender_email \in FormAddresses, receiver_email \in FormAddresses,
          subject \in FormSubjects, temperature \in FormTemperatures,
          sets \in FormSettings \cup {NoSettings} :
          /\ app = "simple_app" =>
                /\ sender_email = <<>> /\ receiver_email = <<>> /\ subject = <<>>
                /\ sets = NoSettings
          /\ app = "app" =>
                /\ temperature = Number(DefaultTemperature)
                /\ sets \in FormSettings
          /\ FormStart(app, text, sender_email, receiver_email, subject,
                       temperature, sets, <<>>)
          /\ email_type \in FormEmailTypes
          /\ app = "app" => email_type = "custom"
    /\ tone \in FormTones
    /\ context \in FormContexts

----------------------------------------------------------------------------
(* The steps of one submission *)

\* simple_app.py lines 405-412: the check of the key points and build_prompt
SimpleAppSubmit ==
    /\ pc = "idle"
    /\ form.app = "simple_app"
    /\ IF simple_app_form_complete(key_points)
       THEN /\ form' = [form EXCEPT !.prompt =
                          Some(simple_app_build_prompt(key_points, tone, context, email_type))]
            /\ log' = Append(log, "build_prompt")
            /\ pc' = "calling"
       ELSE /\ pc' = "warned"
            /\ UNCHANGED <<form, log>>
    /\ UNCHANGED <<response, ret>>
    /\ UNCHANGED <<function_vars, gateway_vars, session_vars, send_vars>>

\* app.py lines 854-859 and 901-921: the file held by the uploader goes
\* through handle_uploaded_file, then the submitted form is checked for its
\* required fields and build_prompt is called
AppSubmit ==
    /\ pc = "idle"
    /\ form.app = "app"
    /\ IF settings.uploaded_file.is_none
       THEN UNCHANGED <<attachments, result, shown>>
       ELSE LET pair == handle_uploaded_file_result(attachments, settings.uploaded_file)
            IN /\ attachments' =
                     handle_uploaded_file_attachments(attachments, settings.uploaded_file)
               /\ result' = Bound(pair)
               /\ shown' = Append(shown, IF pair[1] THEN st_success(pair[2])
                                         ELSE st_error(pair[2]))
    /\ IF app_form_complete(form, key_points)
       THEN /\ form' = [form EXCEPT !.prompt =
                          Some(app_build_prompt(iterate_str(key_points), tone,
                                  Some(app_email_context(form.sender_email,
                                          form.receiver_email, form.subject,
                                          context.str))))]
            /\ log' = Append(log, "build_prompt")
            /\ pc' = "calling"
       ELSE /\ pc' = "warned"
            /\ UNCHANGED <<form, log>>
    /\ UNCHANGED <<response, ret, settings, mail>>
    /\ UNCHANGED <<function_vars, gateway_vars>>

\* simple_app.py line 415, groq_client.send_prompt(prompt, temperature), and
\* app.py line 924, groq_client.send_prompt(prompt)
FormSendPrompt ==
    /\ pc = "calling"
    /\ \E outcome \in ProviderOutcomes :
          LET temperature == IF form.app = "simple_app" THEN form.temperature
                             ELSE NoNumber
          IN /\ call' = [fn |-> "app.send_prompt", prompt |-> form.prompt.str,
                         temperature |-> temperature, outcome |-> outcome]
             /\ requests' = Append(requests, app_request(form.prompt.str, temperature))
             /\ log' = Append(log, "send_prompt")
             /\ response' = IF completion_error(outcome) = NoneValue
                            THEN outcome.content ELSE response
             /\ ret' = IF completion_error(outcome) = NoneValue THEN ret
                       ELSE [fn |-> "app.send_prompt",
                             error |-> send_prompt_error(completion_error(outcome))]
             /\ pc' = after_completion(completion_error(outcome), outcome.content)
    /\ UNCHANGED <<env, client, form>>
    /\ UNCHANGED <<function_vars, session_vars, send_vars>>

\* simple_app.py lines 417-472: evaluate_reply, detailed_evaluation and the
\* display of the results
SimpleAppEvaluate ==
    /\ pc = "evaluating"
    /\ form.app = "simple_app"
    /\ log' = Append(log, "evaluate")
    /\ IF detailed_evaluation_error(response.str, key_points) # NoneValue
       THEN /\ ret' = [fn |-> "simple_app.form",
                       error |-> detailed_evaluation_error(response.str, key_points)]
            /\ pc' = "error"
       ELSE LET evaluation == evaluate_reply(response.str, key_points)
                detailed_eval == detailed_evaluation(response.str, key_points)
            IN IF simple_app_display_error(evaluation, detailed_eval) = NoneValue
               THEN /\ ret' = [fn |-> "simple_app.form",
                               value |-> [evaluation |-> evaluation,
                                          detailed_eval |-> detailed_eval]]
                    /\ pc' = "displayed"
               ELSE /\ ret' = [fn |-> "simple_app.form",
                               error |-> simple_app_display_error(evaluation, detailed_eval)]
                    /\ pc' = "error"
    /\ UNCHANGED <<response, form>>
    /\ UNCHANGED <<function_vars, gateway_vars, session_vars, send_vars>>

\* app.py lines 926-1013: evaluate_email, the Send Email button when it is
\* pressed, and the display of the results
AppEvaluate ==
    /\ pc = "evaluating"
    /\ form.app = "app"
    /\ log' = Append(log, "evaluate")
    /\ \E pressed \in BOOLEAN, outcome \in SendOutcomes :
       \E evaluation \in {evaluate_email(response.str, iterate_str(key_points))},
          button \in {send_button(form, settings, attachments, result,
                                  response.str, outcome)} :
       \E raised \in {IF pressed /\ button.error # NoneValue THEN button.error
                      ELSE app_display_error(evaluation)} :
          /\ IF pressed
             THEN /\ mail' = button.mail
                  /\ result' = button.result
                  /\ shown' = shown \o button.shown
                  /\ settings' = [settings EXCEPT !.last_template = button.last_template]
             ELSE UNCHANGED send_vars
          /\ IF raised = NoneValue
             THEN /\ ret' = [fn |-> "app.form", value |-> [evaluation |-> evaluation]]
                  /\ pc' = "displayed"
             ELSE /\ ret' = [fn |-> "app.form", error |-> raised]
                  /\ pc' = "error"
    /\ UNCHANGED <<response, form>>
    /\ UNCHANGED <<function_vars, gateway_vars, session_vars>>

NextForm ==
    \/ SimpleAppSubmit
    \/ AppSubmit
    \/ FormSendPrompt
    \/ SimpleAppEvaluate
    \/ AppEvaluate

SpecForm == InitForm /\ [][NextForm]_vars


----------------------------------------------------------------------------
(* The Send Email button under every configuration *)

SendAddresses == { <<"a","@","b",".","c","o">>, <<"a","@","b">>, <<"x"," ","y","@","b",".","c","o">> }

SendPasswords == { NoneValue, Some(<<>>), Some(<<"p","w">>) }

\* lines 903-904 read the provider and the template from st.session_state,
\* where no line of app.py stores them: the handler sees the two defaults
SendProviders == { "gmail" }

SendSecrets == { NoSecrets, [SMTP_HOST |-> Some(<<"m","x",".","b",".","c","o">>), SMTP_PORT |-> Number(SmtpPort)] }

\* the files the session holds: none, 20MB in two files, 30MB in three
HeldFiles ==
    { <<>>,
      << [name |-> <<"a",".","t","x","t">>, type |-> "text/plain", size |-> MaxFileSize],
         [name |-> <<"b",".","p","d","f">>, type |-> "application/pdf", size |-> MaxFileSize] >>,
      << [name |-> <<"a",".","t","x","t">>, type |-> "text/plain", size |-> MaxFileSize],
         [name |-> <<"b",".","p","d","f">>, type |-> "application/pdf", size |-> MaxFileSize],
         [name |-> <<"c",".","p","n","g">>, type |-> "image/png", size |-> MaxFileSize] >> }

\* the file the uploader holds when the form is submitted
HeldUploads == { NoFile, UploadedFile(<<"c",".","p","n","g">>, "image/png", MaxFileSize) }

SendSettings ==
    { [smtp_password |-> smtp_password, email_provider |-> email_provider,
       email_template |-> "default", secrets |-> secrets,
       uploaded_file |-> uploaded_file, last_template |-> <<>>] :
         smtp_password \in SendPasswords, email_provider \in SendProviders,
         secrets \in SendSecrets, uploaded_file \in HeldUploads }

InitSendFlow ==
    /\ \E sender_email \in SendAddresses, receiver_email \in SendAddresses,
          sets \in SendSettings, files \in HeldFiles :
          FormStart("app", <<"t","h","a","n","k"," ","y","o","u">>, sender_email, receiver_email, <<"V","i","s","i","t">>,
                    Number(DefaultTemperature), sets, files)
    /\ email_type = "custom"
    /\ tone = <<"f","o","r","m","a","l">>
    /\ context = Some(<<>>)

NextSendFlow == AppSubmit \/ FormSendPrompt \/ AppEvaluate

SpecSendFlow == InitSendFlow /\ [][NextSendFlow]_vars

----------------------------------------------------------------------------
(* send_email called on its own *)

SendSubjects == { <<"V","i","s","i","t">>, <<"{","x","}">> }

SendBodies == { <<>>, <<"H","i",",","\n","\n","s","e","e"," ","h","t","t","p",":","/","/","b",".","c","o"," ","n",
      "o","w","\n","B","y","e">>, <<"{","c","o","n","t","e","n","t","}">> }

SendTemplates == { "default", "formal", "newsletter", "meeting", "thank_you", "plain" }

SendAttachments ==
    { <<>>, << [name |-> <<"a",".","t","x","t">>, type |-> "text/plain", size |-> 1024] >> }

SendArgs ==
    { [sender_email |-> <<"a","@","b",".","c","o">>, receiver_email |-> <<"c","@","d",".","o","r","g">>,
       subject |-> subject, body |-> body, smtp_password |-> <<"p","w">>,
       provider |-> provider, template |-> template, attachments |-> files,
       secrets |-> NoSecrets] :
         subject \in SendSubjects, body \in SendBodies,
         provider \in {"gmail", "outlook"}, template \in SendTemplates,
         files \in SendAttachments }

InitSend ==
    /\ reply = <<>>
    /\ key_points = <<>>
    /\ NoPromptInputs
    /\ ret = Unset
    /\ NoGateway /\ NoForm /\ NoSession /\ NoSend

\* send_email(sender_email, receiver_email, subject, body, smtp_password,
\* provider, template, attachments)
SendEmail ==
    /\ ret = Unset
    /\ \E args \in SendArgs, outcome \in SendOutcomes :
          /\ call' = [fn |-> "app.send_email", args |-> args, outcome |-> outcome]
          /\ ret' = [fn |-> "app.send_email", value |-> send_email(args, outcome)]
          /\ mail' = Mail(args, outcome)
    /\ UNCHANGED <<env, client, requests, settings, result, shown>>
    /\ UNCHANGED <<function_vars, form_vars, session_vars>>

SpecSend == InitSend /\ [][SendEmail]_vars

----------------------------------------------------------------------------
(* Every family of inputs and every operation together *)

Init ==
    \/ InitCoverage \/ InitTone \/ InitLength \/ InitPrompt \/ InitEdge
    \/ InitGateway \/ InitForm \/ InitSession \/ InitSendFlow \/ InitSend

Next == NextFunctions \/ MainEvaluateReply \/ NextGateway \/ NextForm \/ NextSession \/ SendEmail

Spec == Init /\ [][Next]_vars

----------------------------------------------------------------------------
(* Properties *)

PromptFns ==
    {"simple_app.build_prompt", "app.build_prompt", "main.build_prompt",
     "email_utils.build_prompt"}

Returned(fn) == ret.fn = fn

\* C1: for a non-empty key_points list, the prompt every build_prompt returns
\* contains each key point as an exact, case-preserved substring.
C1_KeyPointsInPrompt ==
    (ret.fn \in PromptFns /\ key_points # <<>>)
        => \A k \in 1..Len(key_points) : is_in(key_points[k], ret.value)

C1_Witness ==
    /\ Returned("main.build_prompt")
    /\ Len(key_points) = 2
    /\ key_points[1] = <<"C","o","n","f","i","r","m"," ","F","r","i","d","a","y"," ","2","p","m">>
    /\ key_points[2] = <<"B","r","i","n","g"," ","Q","3"," ","r","e","p","o","r","t">>
    /\ is_in(<<"1","."," ","C","o","n","f","i","r","m"," ","F","r","i","d","a","y"," ","2","p","m","\n",
      "2","."," ","B","r","i","n","g"," ","Q","3"," ","r","e","p","o","r","t">>, ret.value)

\* A word token of s: a maximal run of word characters, from position i to j.
IsToken(s, i, j) ==
    /\ 1 <= i /\ i <= j /\ j <= Len(s)
    /\ \A m \in i..j : is_word_char(s[m])
    /\ i = 1 \/ ~is_word_char(s[i - 1])
    /\ j = Len(s) \/ ~is_word_char(s[j + 1])

\* The point occurs verbatim, ignoring case, in the reply.
Verbatim(point, r) == is_in(lower(point), lower(r))

\* Some word token of the point longer than 2 characters occurs in the reply.
SomeLongTokenOccurs(point, r) ==
    \E i \in 1..Len(point), j \in 1..Len(point) :
        /\ IsToken(lower(point), i, j)
        /\ j - i + 1 > 2
        /\ is_in(SubSeq(lower(point), i, j), lower(r))

\* Some word token of the point longer than 2 characters does not occur.
SomeLongTokenAbsent(point, r) ==
    \E i \in 1..Len(point), j \in 1..Len(point) :
        /\ IsToken(lower(point), i, j)
        /\ j - i + 1 > 2
        /\ ~is_in(SubSeq(lower(point), i, j), lower(r))

HasLongToken(point) ==
    \E i \in 1..Len(point), j \in 1..Len(point) :
        IsToken(lower(point), i, j) /\ j - i + 1 > 2

Found(point, r) == Verbatim(point, r) \/ SomeLongTokenOccurs(point, r)

\* C2: evaluate_reply returns all_key_points_included = true exactly when
\* every key point is found: verbatim in the lowercased reply, or else by one
\* of its word tokens longer than 2 characters; a point with no such token
\* and no verbatim match is reported missing.
C2_AllIncludedIffEveryPointFound ==
    /\ Returned("evaluation_utils.evaluate_reply")
          => (ret.value.all_key_points_included
                <=> \A k \in 1..Len(key_points) : Found(key_points[k], reply))
    /\ Returned("evaluation_utils.detailed_evaluation")
          => \A k \in 1..Len(key_points) :
                (~HasLongToken(key_points[k]) /\ ~Verbatim(key_points[k], reply))
                    => key_points[k] \in RangeOf(ret.value.missing_points)

C2_Witness ==
    /\ Returned("evaluation_utils.evaluate_reply")
    /\ ~ret.value.all_key_points_included
    /\ Len(key_points) = 2
    /\ key_points[1] = <<"R","e","p","o","r","t">> /\ Verbatim(key_points[1], reply)
    /\ key_points[2] = <<"o","k">> /\ ~Verbatim(key_points[2], reply)

\* C3: the token fallback is ANY, not ALL: a point that is not verbatim in the
\* reply is found as soon as one of its tokens longer than 2 characters
\* occurs in the lowercased reply, whether or not its other tokens occur.
C3_TokenFallbackIsAny ==
    /\ Returned("evaluation_utils.detailed_evaluation")
          => \A k \in 1..Len(key_points) :
                (~Verbatim(key_points[k], reply) /\ SomeLongTokenOccurs(key_points[k], reply))
                    => key_points[k] \notin RangeOf(ret.value.missing_points)
    /\ Returned("evaluation_utils.evaluate_reply")
          => ((\A k \in 1..Len(key_points) :
                  ~Verbatim(key_points[k], reply) /\ SomeLongTokenOccurs(key_points[k], reply))
                => ret.value.all_key_points_included)

C3_Witness ==
    /\ Returned("evaluation_utils.evaluate_reply")
    /\ key_points = << <<"g","r","e","a","t"," ","m","e","e","t","i","n","g">> >>
    /\ ~Verbatim(key_points[1], reply)
    /\ SomeLongTokenOccurs(key_points[1], reply)
    /\ SomeLongTokenAbsent(key_points[1], reply)
    /\ ret.value.all_key_points_included

PhrasesIn(phrases, r) == {p \in RangeOf(phrases) : is_in(p, lower(r))}

C5_NoContextBlockWithoutContext ==
    (ret.fn \in PromptFns /\ ~truthy(context))
        => /\ ~is_in(<<"A","d","d","i","t","i","o","n","a","l"," ","C","o","n","t","e","x","t">>, ret.value)
           /\ ~is_in(<<"C","O","N","T","E","X","T",":">>, ret.value)

\* C6: for an email_type outside the six known values, simple_app's
\* build_prompt returns exactly the prompt of email_type "custom" for the
\* same key_points, tone and context.
C6_UnknownTypeIsCustom ==
    (Returned("simple_app.build_prompt") /\ email_type \notin EmailTypes)
        => ret.value = simple_app_build_prompt(key_points, tone, context, "custom")

C6_Witness ==
    /\ Returned("simple_app.build_prompt")
    /\ email_type = "other"
    /\ key_points # <<>>
    /\ is_in(<<"W","r","i","t","e"," ","a"," ","p","r","o","f","e","s","s","i","o","n","a","l"," ","e",
      "m","a","i","l"," ","w","i","t","h"," ","t","h","e"," ","f","o","l","l","o","w","i","n",
      "g"," ","k","e","y"," ","p","o","i","n","t","s",":","\n","-"," ">>, ret.value)

\* C7: for every reply, the empty one included, an empty key_points list
\* gives all_key_points_included = true and an empty missing_points list.
C7_EmptyKeyPoints ==
    /\ (Returned("evaluation_utils.evaluate_reply") /\ key_points = <<>>)
          => ret.value.all_key_points_included
    /\ (Returned("evaluation_utils.detailed_evaluation") /\ key_points = <<>>)
          => ret.value.all_key_points_included /\ ret.value.missing_points = <<>>

C7_Witness ==
    /\ Returned("evaluation_utils.detailed_evaluation")
    /\ key_points = <<>>
    /\ reply = <<>>
    /\ ret.value.all_key_points_included
    /\ ret.value.missing_points = <<>>

\* C8: for the empty reply and a non-empty list of non-empty key points,
\* all_key_points_included is false and missing_points is the key_points
\* list itself, in the original order and case.
C8_EmptyReplyMissesEverything ==
    (reply = <<>> /\ key_points # <<>> /\ \A k \in 1..Len(key_points) : key_points[k] # <<>>)
        => /\ Returned("evaluation_utils.evaluate_reply")
                => ~ret.value.all_key_points_included
           /\ Returned("evaluation_utils.detailed_evaluation")
                => ~ret.value.all_key_points_included
                   /\ ret.value.missing_points = key_points

C8_Witness ==
    /\ Returned("evaluation_utils.detailed_evaluation")
    /\ reply = <<>>
    /\ key_points = << <<"R","e","p","o","r","t">>, <<"g","r","e","a","t"," ","m","e","e","t","i","n","g">> >>
    /\ ret.value.missing_points = << <<"R","e","p","o","r","t">>, <<"g","r","e","a","t"," ","m","e","e","t","i","n","g">> >>

\* The same text in another letter case.
CaseVariants(s) == {s, lower(s), upper(s)}

CaseVariantLists(points) ==
    {ps \in [1..Len(points) -> UNION {CaseVariants(points[k]) : k \in 1..Len(points)}] :
        \A k \in 1..Len(points) : ps[k] \in CaseVariants(points[k])}

MissingPositions(points, missing) == {k \in 1..Len(points) : points[k] \in RangeOf(missing)}

\* C9: coverage is case-insensitive: changing the letter case of the reply or
\* of a key point changes neither all_key_points_included nor the positions
\* of key_points reported in missing_points.
C9_CoverageIgnoresCase ==
    Returned("evaluation_utils.detailed_evaluation")
        => \A r2 \in CaseVariants(reply), ps2 \in CaseVariantLists(key_points) :
              /\ evaluate_reply(r2, ps2).all_key_points_included
                    = ret.value.all_key_points_included
              /\ MissingPositions(ps2, detailed_evaluation(r2, ps2).missing_points)
                    = MissingPositions(key_points, ret.value.missing_points)

IsVerboseNote(s) == is_in(<<"c","o","n","c","i","s","e">>, lower(s)) \/ is_in(<<"v","e","r","b","o","s","e">>, lower(s))

\* C10: the suggestions of the evaluator contain a too-verbose note whenever
\* the reply has more than 500 whitespace-separated words, and not at 500.
C10_VerboseNoteAbove500 ==
    ret.fn \in {"evaluation_utils.detailed_evaluation", "app.evaluate_email"}
        => ((\E k \in 1..Len(ret.value.suggestions) : IsVerboseNote(ret.value.suggestions[k]))
                <=> split_len(reply) > VerboseLimit)

\* the note a suggestion list carries for a reply that is too short
IsBriefNote(s) == s = BriefNote \/ s = MoreDetailNote

\* C11: the evaluators suggest that the reply is too brief exactly when the
\* reply has fewer than 50 whitespace-separated words: 0 and 49 words carry
\* the note, 50 words do not.
C11_BriefNoteIffBelow50 ==
    /\ Returned("evaluation_utils.detailed_evaluation") =>
          /\ ret.value.word_count = split_len(reply)
          /\ (\E k \in 1..Len(ret.value.suggestions) : IsBriefNote(ret.value.suggestions[k]))
                <=> ret.value.word_count < 50
    /\ Returned("app.evaluate_email") =>
          /\ ret.value.length = split_len(reply)
          /\ (\E k \in 1..Len(ret.value.suggestions) : IsBriefNote(ret.value.suggestions[k]))
                <=> ret.value.length < 50

\* a reply of exactly 50 words evaluated by app.evaluate_email without the note
C11_Witness ==
    /\ Returned("app.evaluate_email")
    /\ ret.value.length = 50
    /\ ret.value.suggestions = <<>>

\* C12: the suggestions of detailed_evaluation hold the missing-points note,
\* naming the missing points, exactly when missing_points is non-empty, and
\* the politeness note exactly when tone_is_polite is false.
C12_NotesFollowFindings ==
    Returned("evaluation_utils.detailed_evaluation") =>
       LET v == ret.value
       IN /\ (\E k \in 1..Len(v.suggestions) :
                 v.suggestions[k] = MissingNote \o join(<<","," ">>, v.missing_points))
              <=> v.missing_points # <<>>
          /\ (\E k \in 1..Len(v.suggestions) :
                 SubSeq(v.suggestions[k], 1, Len(MissingNote)) = MissingNote
                 /\ Len(v.suggestions[k]) >= Len(MissingNote))
              <=> v.missing_points # <<>>
          /\ (\E k \in 1..Len(v.suggestions) : v.suggestions[k] = PoliteNote)
              <=> ~v.tone_is_polite

\* a reply that misses its key point and is not polite: both notes
C12_Witness ==
    /\ Returned("evaluation_utils.detailed_evaluation")
    /\ ret.value.missing_points # <<>>
    /\ ~ret.value.tone_is_polite
    /\ Len(ret.value.suggestions) = 3

\* the call of fn ended by returning a value, by raising an exception
Returns(fn) == ret.fn = fn /\ "value" \in DOMAIN ret

Raises(fn) == ret.fn = fn /\ "error" \in DOMAIN ret

IsString(v) == \A i \in 1..Len(v) : v[i] \in STRING

\* C13: build_prompt, evaluate_reply and detailed_evaluation never raise: for
\* every reply, tone and context and every list of key points, the empty
\* list and empty strings included, the call returns a value of its result
\* type (a prompt text, the two-key dict, the five-key dict).
C13_NeverRaises ==
    /\ ret.fn \in PromptFns \cup {"evaluation_utils.evaluate_reply",
                                 "evaluation_utils.detailed_evaluation"}
          => "value" \in DOMAIN ret
    /\ ret.fn \in PromptFns => Len(ret.value) > 0 /\ IsString(ret.value)
    /\ ret.fn = "evaluation_utils.evaluate_reply" =>
          /\ DOMAIN ret.value = {"all_key_points_included", "tone_is_polite"}
          /\ \A k \in DOMAIN ret.value : ret.value[k] \in BOOLEAN
    /\ ret.fn = "evaluation_utils.detailed_evaluation" =>
          /\ DOMAIN ret.value = {"all_key_points_included", "tone_is_polite",
                                 "missing_points", "word_count", "suggestions"}
          /\ ret.value.all_key_points_included \in BOOLEAN
          /\ ret.value.tone_is_polite \in BOOLEAN
          /\ ret.value.word_count \in Nat
          /\ \A k \in 1..Len(ret.value.missing_points) :
                IsString(ret.value.missing_points[k])
          /\ \A k \in 1..Len(ret.value.suggestions) :
                IsString(ret.value.suggestions[k])

\* detailed_evaluation of an empty reply against a list holding an empty
\* key point has returned
C13_Witness ==
    /\ Returns("evaluation_utils.detailed_evaluation")
    /\ reply = <<>>
    /\ key_points = << <<>> >>
    /\ tone = <<>>
    /\ ret.value.word_count = 0

\* the request of the last gateway call
LastRequest == requests[Len(requests)]

\* C14: for every temperature t in [0, 1] the caller supplies, 0.0 included,
\* the request sent to the provider carries temperature t; the default 0.7
\* is used only when the caller supplies none.
C14_RequestCarriesTemperature ==
    call.fn \in {"main.send_prompt", "main.send_conversation", "app.send_prompt"} =>
        LastRequest.temperature =
            IF call.temperature.is_none THEN Number(7) ELSE call.temperature

\* the messages naming a missing credential
IsKeyMissingMessage(message) ==
    is_in(ApiKeyRequired, message) \/ is_in(<<"a","p","i","_","k","e","y"," ","c","l","i","e","n","t"," ","o","p","t","i","o","n"," ",
      "m","u","s","t"," ","b","e"," ","s","e","t">>, message)

\* C15: with no credential (no api_key argument and GROQ_API_KEY unset) the
\* GroqAPIClient constructors and both generate_reply functions end in an
\* error that names the missing key, no client object exists, and no
\* completion request has been sent.
C15_NoCredentialNoRequest ==
    /\ (env.is_none /\ client = NoClient) => requests = <<>>
    /\ (env.is_none /\ call.fn = "GroqAPIClient" /\ call.api_key.is_none) =>
          /\ Raises("GroqAPIClient")
          /\ client = NoClient
    /\ (env.is_none /\ call.fn \in {"main.generate_reply", "groq_utils.generate_reply"}) =>
          Raises(call.fn)
    /\ (env.is_none /\ client = NoClient /\ call # NoCall) =>
          IsKeyMissingMessage(ret.error.message)

\* main.generate_reply has failed for want of a credential
C15_Witness ==
    /\ env.is_none
    /\ Raises("main.generate_reply")
    /\ requests = <<>>

\* the gateway call failed for want of a credential: no request was made
ConfigurationFailure ==
    /\ "error" \in DOMAIN ret
    /\ call # NoCall
    /\ Len(requests) = 0

\* the gateway call failed in the remote call
ProviderFailure ==
    /\ "error" \in DOMAIN ret
    /\ call # NoCall
    /\ Len(requests) > 0

\* the exception types a caller can catch apart from a plain Exception
ConfigurationErrorTypes == {"ValueError", "GroqError"}

\* C16: a missing credential and a failed provider call reach the caller as
\* two distinguishable kinds of error, also through generate_reply: the
\* type of the exception tells which of the two happened.
C16_ErrorKindsDistinguishable ==
    /\ ConfigurationFailure => ret.error.type \in ConfigurationErrorTypes
    /\ ProviderFailure => ret.error.type \notin ConfigurationErrorTypes

\* C17: whenever the remote call fails (it raises, or its response has no
\* choice) the gateway call ends in an error, never a returned value, and
\* the error's message contains the message of the cause, also after
\* generate_reply has wrapped it.
C17_FailureCarriesCause ==
    (Len(requests) > 0 /\ provider_failed(call.outcome)) =>
        /\ "error" \in DOMAIN ret
        /\ "value" \notin DOMAIN ret
        /\ is_in(IF call.outcome.kind = "error" THEN call.outcome.error.message
                 ELSE IndexError.message,
                 ret.error.message)

\* main.generate_reply after a failed remote call: the cause is inside both
\* wrappings
C17_Witness ==
    /\ Raises("main.generate_reply")
    /\ Len(requests) = 1
    /\ call.outcome.kind = "error"
    /\ ret.error.message =
          GenerateReplyFailed \o SendPromptFailed \o call.outcome.error.message

\* C18: the message list of a request is [user] or [system, user]: the
\* system message is there only when one was supplied and is not empty, and
\* then it is first; the user prompt is last and is the only user message.
C18_MessageList ==
    /\ call.fn = "main.send_prompt" =>
          LET m == LastRequest.messages
          IN /\ Len(m) \in {1, 2}
             /\ m[Len(m)] = [role |-> "user", content |-> call.prompt]
             /\ Cardinality({i \in 1..Len(m) : m[i].role = "user"}) = 1
             /\ Len(m) = 2 <=>
                   (~call.system_message.is_none /\ call.system_message.str # <<>>)
             /\ Len(m) = 2 =>
                   m[1] = [role |-> "system", content |-> call.system_message.str]
    /\ (call.fn \in {"app.send_prompt", "main.generate_reply",
                    "groq_utils.generate_reply"} /\ Len(requests) > 0) =>
          LastRequest.messages = << [role |-> "user", content |-> call.prompt] >>

\* a request of main.send_prompt with a system message
C18_Witness ==
    /\ call.fn = "main.send_prompt"
    /\ Len(LastRequest.messages) = 2
    /\ LastRequest.messages[1].role = "system"

\* the steps of one submission, in their order
FormSteps == << "build_prompt", "send_prompt", "evaluate" >>

\* C19: within one form submission the steps run in the order build_prompt,
\* one completion call, evaluation: the evaluation runs only after a
\* non-empty completion response, no second completion call follows a
\* failure, and with empty key points no completion call is made.
C19_StepsInOrder ==
    form # NoFields =>
       /\ Len(log) <= Len(FormSteps)
       /\ log = SubSeq(FormSteps, 1, Len(log))
       /\ Len(requests) = Cardinality({i \in 1..Len(log) : log[i] = "send_prompt"})
       /\ pc \in {"error", "failed", "displayed"} => Len(requests) <= 1
       /\ (\E i \in 1..Len(log) : log[i] = "evaluate") =>
             /\ ~response.is_none
             /\ response.str # <<>>
             /\ call.outcome.content = response
       /\ key_points = <<>> => (requests = <<>> /\ log = <<>>)

\* a submission of simple_app that ran all three steps and shows its result
C19_Witness ==
    /\ form # NoFields
    /\ form.app = "simple_app"
    /\ pc = "displayed"
    /\ log = FormSteps
    /\ Len(requests) = 1

\* C20: after any sequence of uploads and removals the attachments held in
\* the session list total at most 25MB.
C20_TotalAtMost25MB == total_size(attachments) <= 25 * 1024 * 1024

\* C21: after any sequence of uploads and removals every attachment of the
\* session list has at most 10MB, and an upload of more than 10MB returns a
\* failure.
C21_EachAtMost10MB ==
    /\ \A k \in 1..Len(attachments) : attachments[k].size <= 10 * 1024 * 1024
    /\ (/\ call.fn = "app.handle_uploaded_file"
        /\ ~call.uploaded_file.is_none
        /\ call.uploaded_file.size > 10 * 1024 * 1024) =>
          /\ ret.value[1] = FALSE
          /\ ret.value[2] = FileTooLarge

\* a file of 10MB and one byte was refused while a file of exactly 10MB is
\* held
C21_Witness ==
    /\ call.fn = "app.handle_uploaded_file"
    /\ ~call.uploaded_file.is_none
    /\ call.uploaded_file.size = 10 * 1024 * 1024 + 1
    /\ ret.value[1] = FALSE
    /\ \E k \in 1..Len(attachments) : attachments[k].size = 10 * 1024 * 1024

\* C30: after any sequence of uploads and removals no two attachments of
\* the session list have the same name, and an upload that is rejected
\* (too large, a name already attached, no file) leaves the list as it was.
C30_DistinctNamesRejectedUnchanged ==
    /\ [](\A i, j \in 1..Len(attachments) :
             attachments[i].name = attachments[j].name => i = j)
    /\ [][(call'.fn = "app.handle_uploaded_file" /\ ~ret'.value[1])
             => attachments' = attachments]_vars

\* an upload was rejected for its name while two attachments are held
C30_Witness ==
    /\ call.fn = "app.handle_uploaded_file"
    /\ ret.value = << FALSE, FileAlreadyAttached >>
    /\ Len(attachments) = 2

\* a is b with some of its elements left out, the rest in b's order
IsSubsequence(a, b) ==
    \E f \in [1..Len(a) -> 1..Len(b)] :
        /\ \A i \in 1..Len(a) : b[f[i]] = a[i]
        /\ \A i, j \in 1..Len(a) : i < j => f[i] < f[j]

\* C26: the two coverage computations agree: all_key_points_included of
\* evaluate_reply is true exactly when missing_points of
\* detailed_evaluation is empty, and missing_points is a subsequence of
\* key_points.
C26_CoverageComputationsAgree ==
    /\ Returned("evaluation_utils.detailed_evaluation") =>
          /\ ret.value.all_key_points_included <=> ret.value.missing_points = <<>>
          /\ IsSubsequence(ret.value.missing_points, key_points)
    /\ Returned("evaluation_utils.evaluate_reply") =>
          (ret.value.all_key_points_included
              <=> missing_points_of(reply, key_points) = <<>>)

\* of two different key points the second alone is missing
C26_Witness ==
    /\ Returned("evaluation_utils.detailed_evaluation")
    /\ Len(key_points) = 2
    /\ key_points[1] # key_points[2]
    /\ ret.value.missing_points = << key_points[2] >>
    /\ ~ret.value.all_key_points_included

\* C27: when app.evaluate_email reports completeness (every point a
\* substring of the text, letter case aside), evaluation_utils.evaluate_reply
\* reports all_key_points_included and main.evaluate_reply reports
\* all_points_present.
C27_StrictRefinesLenient ==
    LET complete == \A k \in 1..Len(key_points) :
                       is_in(lower(key_points[k]), lower(reply))
    IN /\ Returned("app.evaluate_email") => ret.value.completeness = complete
       /\ (Returned("evaluation_utils.evaluate_reply") /\ complete) =>
             ret.value.all_key_points_included
       /\ (Returned("main.evaluate_reply") /\ complete) => ret.value[1]

\* main.evaluate_reply on a reply that holds its two key points verbatim
C27_Witness ==
    /\ Returned("main.evaluate_reply")
    /\ Len(key_points) = 2
    /\ \A k \in 1..2 : key_points[k] # <<>> /\ is_in(lower(key_points[k]), lower(reply))
    /\ ret.value[1]

\* C22: send_email always returns a (success, message) pair and never
\* raises: every failure ends in (False, message) with the text of its cause
\* in the message, and (True, ...) is returned only after STARTTLS, login and
\* sendmail were completed in that order.
C22_SendEmailReturnsPair ==
    call.fn = "app.send_email" =>
       /\ Returns("app.send_email")
       /\ ret.value[1] \in BOOLEAN
       /\ IsString(ret.value[2])
       /\ ret.value[1] <=> mail.error = NoneValue
       /\ ~ret.value[1] => is_in(mail.error.message, ret.value[2])
       /\ ret.value[1] => SubSeq(mail.smtp, 2, Len(mail.smtp))
                             = << "starttls", "login", "sendmail" >>

\* a call that failed and answered with the text of the exception
C22_Witness ==
    /\ call.fn = "app.send_email"
    /\ mail.error # NoneValue
    /\ ret.value = << FALSE, FailedToSend \o mail.error.message >>

\* C23: for each of the five template names and every subject, body and
\* sender, send_email renders the plain text and the HTML text with the three
\* values substituted, without an error, and so goes on to the SMTP session.
C23_TemplatesRender ==
    (call.fn = "app.send_email" /\ call.args.template \in DOMAIN templates) =>
       /\ ~mail.text_content.is_none
       /\ is_in(call.args.subject, mail.text_content.str)
       /\ is_in(call.args.body, mail.text_content.str)
       /\ is_in(call.args.sender_email, mail.text_content.str)
       /\ ~mail.html_content.is_none
       /\ is_in(call.args.subject, mail.html_content.str)
       /\ is_in(call.args.sender_email, mail.html_content.str)
       /\ call.outcome = SendSucceeds => mail.smtp = SmtpSteps

\* C24: in both apps, when the completion returned a non-empty text, the
\* evaluation runs and its results are displayed: the handler does not end
\* in its error branch.
C24_EvaluationReachesDisplay ==
    (form # NoFields /\ log = FormSteps) =>
       /\ pc = "displayed"
       /\ "value" \in DOMAIN ret

\* the lines of the prompt that are bullets
bullet_lines(prompt) ==
    SelectSeq(split_lines(prompt), LAMBDA line : starts_at(line, 1, <<"-"," ">>))

\* the lines of the input that are not blank
non_blank_lines(text) ==
    SelectSeq(split_lines(text), LAMBDA line : strip(line) # <<>>)

\* C25: in both apps the prompt holds one bullet line per non-blank line of
\* the key points input, in the order of the input, each the stripped line.
C25_OneBulletPerLine ==
    (form # NoFields /\ ~form.prompt.is_none) =>
       /\ Len(bullet_lines(form.prompt.str)) = Len(non_blank_lines(form.text))
       /\ \A k \in 1..Len(non_blank_lines(form.text)) :
             bullet_lines(form.prompt.str)[k]
                = <<"-"," ">> \o strip(non_blank_lines(form.text)[k])

C29_OversizeEndsCleanly ==
    (form # NoFields /\ \E k \in 1..Len(shown) : shown[k] = st_error(TotalTooLarge)) =>
       /\ shown[Len(shown)] = st_error(TotalTooLarge)
       /\ settings.last_template = <<>>
       /\ ~("error" \in DOMAIN ret /\ ret.error.type = "NameError")

====
